---- MODULE Spec2Model ----
(***************************************************************************)
(* Hotel booking system: the booking engine, its record files and the      *)
(* handlers that read and write them.                                       *)
(*                                                                          *)
(* Text is modelled character by character: a C string is a sequence of     *)
(* one-character strings, a record file is the sequence of its lines, and   *)
(* each line ends with the newline fprintf wrote.  sscanf, fprintf, strcmp  *)
(* and the date functions are modelled by what they do to those characters. *)
(* A float is modelled by its value in hundredths (every amount the program *)
(* writes has two decimals).                                                *)
(***************************************************************************)
EXTENDS Integers, Sequences, FiniteSets, TLC

VARIABLES rooms_file, bookings_file, users_file, profiles_file, admin_file,
          current_user, is_admin_logged_in, clock, status_label, call, in_flight, screen

vars == <<rooms_file, bookings_file, users_file, profiles_file, admin_file,
          current_user, is_admin_logged_in, clock, status_label, call, in_flight, screen>>

----------------------------------------------------------------------------
(* Characters and C strings *)

\* The characters the model uses, in ASCII order.
Ascii ==
  <<"\n", " ", ",", "-", ".", "/", "0", "1", "2", "3", "4", "5", "6",
    "7", "8", "9", ":", "@", "A", "B", "C", "D", "E", "F", "G", "H",
    "I", "J", "K", "L", "M", "N", "O", "P", "Q", "R", "S", "T", "U",
    "V", "W", "X", "Y", "Z", "_", "a", "b", "c", "d", "e", "f", "g",
    "h", "i", "j", "k", "l", "m", "n", "o", "p", "q", "r", "s", "t",
    "u", "v", "w", "x", "y", "z">>

CharSet == {Ascii[i] : i \in DOMAIN Ascii}

Ord == [c \in CharSet |-> CHOOSE i \in DOMAIN Ascii : Ascii[i] = c]

DigitChars == <<"0", "1", "2", "3", "4", "5", "6", "7", "8", "9">>

DigitSet == {DigitChars[i] : i \in DOMAIN DigitChars}

isdigit(c) == c \in DigitSet

DigitValue == [c \in DigitSet |-> (CHOOSE i \in DOMAIN DigitChars : DigitChars[i] = c) - 1]

DigitVal(c) == DigitValue[c]

isspace(c) == c \in {" ", "\n"}

isalpha(c) == c \in CharSet /\ (Ord[c] >= Ord["A"]) /\ c # "_"

isalnum(c) == isalpha(c) \/ isdigit(c)

Empty == <<>>

strlen(s) == Len(s)

Min(S) == CHOOSE x \in S : \A y \in S : x <= y

\* strcspn: the number of leading characters of s that are not in reject.
strcspn(s, reject) == Min({i \in 1..Len(s) : s[i] \in reject} \cup {Len(s) + 1}) - 1

\* First index up to n where a and b differ, or n+1.
FirstDifference(a, b, n) == Min({i \in 1..n : a[i] # b[i]} \cup {n + 1})

\* strcmp: the sign of the first differing character, a proper prefix is smaller.
StrCmpFrom(a, b, i) ==
  IF i > Len(a) THEN (IF i > Len(b) THEN 0 ELSE -1)
  ELSE IF i > Len(b) THEN 1
  ELSE IF Ord[a[i]] < Ord[b[i]] THEN -1 ELSE 1

strcmp(a, b) ==
  IF a = b THEN 0
  ELSE StrCmpFrom(a, b, FirstDifference(a, b, IF Len(a) < Len(b) THEN Len(a) ELSE Len(b)))

\* strncpy(dst, src, n); dst[n] = 0: the first n characters.
strncpy(s, n) == SubSeq(s, 1, IF Len(s) < n THEN Len(s) ELSE n)

\* strncmp(a, b, n) == 0
strncmp(a, b, n) == strcmp(strncpy(a, n), strncpy(b, n))

\* strstr(hay, needle) != NULL
strstr(hay, needle) ==
  \E i \in 1..(Len(hay) + 1) :
     /\ i + Len(needle) - 1 <= Len(hay)
     /\ SubSeq(hay, i, i + Len(needle) - 1) = needle

----------------------------------------------------------------------------
(* printf conversions *)

RECURSIVE NatText(_)
NatText(n) == IF n < 10 THEN <<DigitChars[n + 1]>>
              ELSE Append(NatText(n \div 10), DigitChars[(n % 10) + 1])

Abs(n) == IF n < 0 THEN -n ELSE n

\* "%d"
FmtD(n) == IF n < 0 THEN <<"-">> \o NatText(-n) ELSE NatText(n)

RECURSIVE Zeros(_)
Zeros(k) == IF k <= 0 THEN <<>> ELSE <<"0">> \o Zeros(k - 1)

\* "%0<w>d": zero padding to width w, the sign counted in the width.
PadTo(sign, digits, w) == sign \o Zeros(w - Len(sign) - Len(digits)) \o digits

FmtPad(n, w) == PadTo(IF n < 0 THEN <<"-">> ELSE <<>>, NatText(Abs(n)), w)

\* "%.2f" of an amount held in hundredths.
FmtF2(cents) ==
  (IF cents < 0 THEN <<"-">> ELSE <<>>)
     \o NatText(Abs(cents) \div 100) \o <<".">> \o FmtPad(Abs(cents) % 100, 2)

\* C integer division truncates toward zero.
CDiv(a, b) == IF a >= 0 THEN a \div b ELSE -((-a) \div b)

----------------------------------------------------------------------------
(* sscanf *)

\* First index at or after p whose character is in stop, or Len(s)+1.
RECURSIVE SpanEnd(_, _, _)
SpanEnd(s, p, stop) ==
  IF p > Len(s) \/ s[p] \in stop THEN p ELSE SpanEnd(s, p + 1, stop)

\* First index at or after p whose character is not a digit.
RECURSIVE DigitsEnd(_, _)
DigitsEnd(s, p) ==
  IF p > Len(s) \/ ~isdigit(s[p]) THEN p ELSE DigitsEnd(s, p + 1)

\* First index at or after p that is not white space.
RECURSIVE SkipSpace(_, _)
SkipSpace(s, p) ==
  IF p > Len(s) \/ ~isspace(s[p]) THEN p ELSE SkipSpace(s, p + 1)

RECURSIVE NatOf(_)
NatOf(ds) == IF ds = <<>> THEN 0
             ELSE 10 * NatOf(SubSeq(ds, 1, Len(ds) - 1)) + DigitVal(ds[Len(ds)])

\* Format directives: a literal character, a negated scan set %[^c], %d, %f, %s.
Lit(c)    == [t |-> "lit", c |-> c]
NotSet(c) == [t |-> "set", c |-> c]
PctD      == [t |-> "d", c |-> ""]
PctF      == [t |-> "f", c |-> ""]
PctS      == [t |-> "s", c |-> ""]

\* The hundredths a fraction's digits fd stand for.
Hundredths(fd) ==
  IF Len(fd) = 0 THEN 0
  ELSE IF Len(fd) = 1 THEN 10 * DigitVal(fd[1])
  ELSE 10 * DigitVal(fd[1]) + DigitVal(fd[2])

\* One numeric conversion at p: [ok, val, next].  %d reads sign and digits;
\* %f also reads a fraction and yields hundredths.  q: after the white space;
\* r: after the sign; e: after the integer digits; fe: after the fraction.
ScanFraction(s, neg, r, e, fe) ==
  [ok   |-> e > r,
   val  |-> (IF neg THEN -1 ELSE 1)
               * (100 * NatOf(SubSeq(s, r, e - 1)) + Hundredths(SubSeq(s, e + 1, fe - 1))),
   next |-> fe]

ScanDigits(s, neg, r, e, isFloat) ==
  IF isFloat
  THEN ScanFraction(s, neg, r, e,
          IF e <= Len(s) /\ s[e] = "." THEN DigitsEnd(s, e + 1) ELSE e)
  ELSE [ok   |-> e > r,
        val  |-> (IF neg THEN -1 ELSE 1) * NatOf(SubSeq(s, r, e - 1)),
        next |-> e]

ScanSign(s, q, isFloat) ==
  IF q <= Len(s) /\ s[q] \in {"-", "+"}
  THEN ScanDigits(s, s[q] = "-", q + 1, DigitsEnd(s, q + 1), isFloat)
  ELSE ScanDigits(s, FALSE, q, DigitsEnd(s, q), isFloat)

ScanNumber(s, p, isFloat) == ScanSign(s, SkipSpace(s, p), isFloat)

\* sscanf(s, fmt, ...): the values converted, in order, up to the first
\* directive that fails (the caller's other arguments are left untouched).
RECURSIVE ScanFrom(_, _, _, _, _)

\* A string conversion that matched s[p..q-1].
TakeText(s, p, q, fmt, k, acc) ==
  IF q = p THEN acc
  ELSE ScanFrom(s, q, fmt, k + 1, Append(acc, SubSeq(s, p, q - 1)))

\* A numeric conversion with result n.
TakeNumber(s, n, fmt, k, acc) ==
  IF ~n.ok THEN acc ELSE ScanFrom(s, n.next, fmt, k + 1, Append(acc, n.val))

\* %s: white space is skipped, then the text up to the next white space.
TakeWord(s, b, fmt, k, acc) ==
  TakeText(s, b, SpanEnd(s, b, {" ", "\n"}), fmt, k, acc)

ScanFrom(s, p, fmt, k, acc) ==
  IF k > Len(fmt) THEN acc
  ELSE
    CASE fmt[k].t = "lit" ->
           IF p <= Len(s) /\ s[p] = fmt[k].c
           THEN ScanFrom(s, p + 1, fmt, k + 1, acc) ELSE acc
      [] fmt[k].t = "set" ->
           TakeText(s, p, SpanEnd(s, p, {fmt[k].c}), fmt, k, acc)
      [] fmt[k].t = "s" ->
           TakeWord(s, SkipSpace(s, p), fmt, k, acc)
      [] OTHER ->
           TakeNumber(s, ScanNumber(s, p, fmt[k].t = "f"), fmt, k, acc)

sscanf(s, fmt) == ScanFrom(s, 1, fmt, 1, <<>>)

\* The caller's variables after sscanf: converted ones assigned, the rest kept.
Assigned(prev, conv) ==
  [i \in DOMAIN prev |-> IF i <= Len(conv) THEN conv[i] ELSE prev[i]]

----------------------------------------------------------------------------
(* time.h: the local time zone is taken to be UTC *)

SecondsPerDay == 60 * 60 * 24

\* Days from 1970-01-01 to the proleptic Gregorian date y-m-d, 1 <= m <= 12;
\* d may lie outside the month (the count is linear in d).
DaysFromCivil(y, m, d) ==
  LET yy  == IF m <= 2 THEN y - 1 ELSE y
      era == yy \div 400
      yoe == yy - era * 400
      mp  == IF m > 2 THEN m - 3 ELSE m + 9
      doy == (153 * mp + 2) \div 5 + d - 1
      doe == yoe * 365 + yoe \div 4 - yoe \div 100 + doy
  IN  era * 146097 + doe - 719468

\* The date of day number z: [year, mon (1..12), mday].
CivilOfMonth(era, yoe, doy, mp) ==
  [year |-> yoe + era * 400 + (IF mp < 10 THEN 0 ELSE 1),
   mon  |-> IF mp < 10 THEN mp + 3 ELSE mp - 9,
   mday |-> doy - (153 * mp + 2) \div 5 + 1]

CivilOfYear(era, doe, yoe) ==
  CivilOfMonth(era, yoe, doe - (365 * yoe + yoe \div 4 - yoe \div 100),
               (5 * (doe - (365 * yoe + yoe \div 4 - yoe \div 100)) + 2) \div 153)

CivilOfEra(era, doe) ==
  CivilOfYear(era, doe,
     (doe - doe \div 1460 + doe \div 36524 - doe \div 146096) \div 365)

CivilFromDays(z) ==
  CivilOfEra((z + 719468) \div 146097,
             (z + 719468) - ((z + 719468) \div 146097) * 146097)

\* localtime(&t): broken-down time, with tm_wday (0 = Sunday).
BrokenDown(c, days, secs) ==
  [year |-> c.year, mon |-> c.mon, mday |-> c.mday,
   hour |-> secs \div 3600, min |-> (secs % 3600) \div 60, sec |-> secs % 60,
   wday |-> (days + 4) % 7]

localtime(t) ==
  BrokenDown(CivilFromDays(t \div SecondsPerDay), t \div SecondsPerDay,
             t % SecondsPerDay)

\* A conversion that takes every month for 30 days and every year for 360.
mktimeFlat(tm_year, tm_mon, tm_mday) ==
  ((tm_year - 70) * 360 + tm_mon * 30 + tm_mday - 1) * SecondsPerDay

\* mktime of a struct tm holding only a date (tm_year since 1900, tm_mon from 0,
\* tm_mday; the time of day and tm_isdst are 0): out-of-range months and days
\* are normalised.
mktime(tm_year, tm_mon, tm_mday) ==
  (DaysFromCivil(tm_year + 1900 + tm_mon \div 12, (tm_mon % 12) + 1, 1)
     + tm_mday - 1) * SecondsPerDay

\* strftime(.., "%Y-%m-%d", tm)
StrfDate(tm) ==
  FmtPad(tm.year, 4) \o <<"-">> \o FmtPad(tm.mon, 2) \o <<"-">> \o FmtPad(tm.mday, 2)

\* strftime(.., "%Y-%m-%d %H:%M:%S", tm)
StrfDateTime(tm) ==
  StrfDate(tm) \o <<" ">> \o FmtPad(tm.hour, 2) \o <<":">> \o FmtPad(tm.min, 2)
     \o <<":">> \o FmtPad(tm.sec, 2)

----------------------------------------------------------------------------
(* date_utilities.c *)

invalid == <<"i", "n", "v", "a", "l", "i", "d">>

DashFmt  == <<PctD, Lit("-"), PctD, Lit("-"), PctD>>
SlashFmt == <<PctD, Lit("/"), PctD, Lit("/"), PctD>>

YmdText(y, m, d) ==
  FmtPad(y, 4) \o <<"-">> \o FmtPad(m, 2) \o <<"-">> \o FmtPad(d, 2)

\* a, b: what the two sscanf calls converted.
ParsedDate(a, b) ==
  IF Len(a) = 3 THEN YmdText(a[1], a[2], a[3])
  ELSE IF Len(b) = 3 THEN YmdText(b[3], b[2], b[1])
  ELSE invalid

parse_date(input) == ParsedDate(sscanf(input, DashFmt), sscanf(input, SlashFmt))

\* tm1, tm2: tm_year, tm_mon, tm_mday as the two sscanf calls leave them.
Duration(tm1, tm2) ==
  CDiv(mktime(tm2[1] - 1900, tm2[2] - 1, tm2[3])
         - mktime(tm1[1] - 1900, tm1[2] - 1, tm1[3]), SecondsPerDay)

calculate_duration(check_in, check_out) ==
  Duration(Assigned(<<0, 0, 0>>, sscanf(check_in, DashFmt)),
           Assigned(<<0, 0, 0>>, sscanf(check_out, DashFmt)))

is_date_in_future(date, now) ==
  strcmp(date, StrfDate(localtime(now))) >= 0

----------------------------------------------------------------------------
(* Record files: one record per line, fields joined by ':' *)

Colon == <<":">>
NL    == <<"\n">>

active    == <<"a", "c", "t", "i", "v", "e">>
canceled  == <<"c", "a", "n", "c", "e", "l", "e", "d">>
Available == <<"A", "v", "a", "i", "l", "a", "b", "l", "e">>
Booked    == <<"B", "o", "o", "k", "e", "d">>
Single    == <<"S", "i", "n", "g", "l", "e">>
Double    == <<"D", "o", "u", "b", "l", "e">>
Suite     == <<"S", "u", "i", "t", "e">>

\* fprintf(file, "%d:%s:%.2f:%s:%s\n", room_number, type, price, status, facilities)
RoomLine(r) ==
  FmtD(r.room_number) \o Colon \o r.type \o Colon \o FmtF2(r.price) \o Colon
     \o r.status \o Colon \o r.facilities \o NL

\* sscanf(line, "%d:%[^:]:%f:%[^:]:%[^\n]", ...)
RoomFmt ==
  <<PctD, Lit(":"), NotSet(":"), Lit(":"), PctF, Lit(":"), NotSet(":"), Lit(":"),
    NotSet("\n")>>

RoomOf(v) ==
  [room_number |-> v[1], type |-> v[2], price |-> v[3], status |-> v[4],
   facilities |-> v[5]]

\* A Room whose members have not been assigned.
RoomUninit == <<0, Empty, 0, Empty, Empty>>

\* The Room one loop iteration leaves in its struct.
ScanRoom(prev, line) == Assigned(prev, sscanf(line, RoomFmt))

\* fprintf(file, "%s:%d:%s:%s:%s:%.2f:%s:%d\n", username, room_number,
\*         booking_date, check_in_date, check_out_date, total_price, status, booking_id)
BookingLine(b) ==
  b.username \o Colon \o FmtD(b.room_number) \o Colon \o b.booking_date \o Colon
     \o b.check_in_date \o Colon \o b.check_out_date \o Colon \o FmtF2(b.total_price)
     \o Colon \o b.status \o Colon \o FmtD(b.booking_id) \o NL

\* sscanf(line, "%[^:]:%d:%[^:]:%[^:]:%[^:]:%f:%[^:]:%d", ...)
BookingFmt ==
  <<NotSet(":"), Lit(":"), PctD, Lit(":"), NotSet(":"), Lit(":"), NotSet(":"),
    Lit(":"), NotSet(":"), Lit(":"), PctF, Lit(":"), NotSet(":"), Lit(":"), PctD>>

BookingOf(v) ==
  [username |-> v[1], room_number |-> v[2], booking_date |-> v[3],
   check_in_date |-> v[4], check_out_date |-> v[5], total_price |-> v[6],
   status |-> v[7], booking_id |-> v[8]]

\* The reader's variables before the first line: status and booking_id hold
\* whatever the memory held (g); the first six are assigned by every line the
\* program writes before they are read.
BookingUninit(g) == <<Empty, 0, Empty, Empty, Empty, 0, g.status, g.booking_id>>

ScanBooking(prev, line) == Assigned(prev, sscanf(line, BookingFmt))

\* while (fgets(line, ..)) sscanf(line, ..): the variables after each line, when
\* they are declared outside the loop and so keep what an earlier line left.
RECURSIVE ReadBookings(_, _)

ReadBookingsFrom(file, v) == <<v>> \o ReadBookings(Tail(file), v)

ReadBookings(file, prev) ==
  IF file = <<>> THEN <<>> ELSE ReadBookingsFrom(file, ScanBooking(prev, Head(file)))

\* fprintf(file, "%s:%s\n", username, phone)
UserLine(username, phone) == username \o Colon \o phone \o NL

\* sscanf(line, "%[^:]:%s", saved_username, saved_phone)
UserFmt == <<NotSet(":"), Lit(":"), PctS>>

\* fprintf(temp, "%s:%s:%s:%s:%s:%s\n", username, full_name, id_number, email, address, phone)
ProfileLine(username, p) ==
  username \o Colon \o p.full_name \o Colon \o p.id_number \o Colon \o p.email
     \o Colon \o p.address \o Colon \o p.phone \o NL

\* sscanf(line, "%[^:]:%[^:]:%[^:]:%[^:]:%[^:]:%[^\n]", ...)
ProfileFmt ==
  <<NotSet(":"), Lit(":"), NotSet(":"), Lit(":"), NotSet(":"), Lit(":"),
    NotSet(":"), Lit(":"), NotSet(":"), Lit(":"), NotSet("\n")>>

\* sscanf(line, "%[^:]:", saved_username)
NameFmt == <<NotSet(":"), Lit(":")>>

\* Values an unassigned char array or int may be found to hold.
GarbageText == {Empty, active}

----------------------------------------------------------------------------
(* file_operations.c *)

\* The five rooms initialize_files writes when data/rooms.txt is absent.
SeedRooms ==
  << [room_number |-> 101, type |-> Single, price |-> 10000, status |-> Available,
      facilities |-> <<"W", "i", "F", "i", ",", "T", "V", ",", "A", "C">>],
     [room_number |-> 102, type |-> Double, price |-> 15000, status |-> Available,
      facilities |-> <<"W", "i", "F", "i", ",", "T", "V", ",", "A", "C", ",", "M", "e", "a", "l", " ", "S", "e", "r", "v", "i", "c", "e">>],
     [room_number |-> 103, type |-> Suite, price |-> 30000, status |-> Available,
      facilities |-> <<"W", "i", "F", "i", ",", "T", "V", ",", "A", "C", ",", "M", "e", "a", "l", " ", "S", "e", "r", "v", "i", "c", "e", ",", "J", "a", "c", "u", "z", "z", "i">>],
     [room_number |-> 104, type |-> Single, price |-> 12000, status |-> Available,
      facilities |-> <<"W", "i", "F", "i", ",", "T", "V", ",", "A", "C", ",", "B", "a", "l", "c", "o", "n", "y">>],
     [room_number |-> 105, type |-> Double, price |-> 18000, status |-> Available,
      facilities |-> <<"W", "i", "F", "i", ",", "T", "V", ",", "A", "C", ",", "M", "e", "a", "l", " ", "S", "e", "r", "v", "i", "c", "e", ",", "B", "a", "l", "c", "o", "n", "y">>] >>

\* The default admin password.
admin123 == <<"a", "d", "m", "i", "n", "1", "2", "3">>

\* The admin password file after fprintf(file, "%s\n", password): whether it
\* exists, and its lines.
AdminFile(password) == [exists |-> TRUE, lines |-> <<password \o NL>>]

\* The files after initialize_files on a first run.
initialize_files ==
  [rooms    |-> [i \in DOMAIN SeedRooms |-> RoomLine(SeedRooms[i])],
   bookings |-> <<>>,
   users    |-> <<>>,
   profiles |-> <<>>,
   admin    |-> AdminFile(admin123)]

\* v: what sscanf(line, "%[^:]:%s", saved_username, saved_phone) converted.
\* char saved_phone[15] takes 14 characters and the terminator: a phone of 15
\* digits makes sscanf store the terminator one past the array.
OverflowsPhone(v) == Len(v) = 2 /\ Len(v[2]) >= 15

\* saved_username after the sscanf.  ovf: the store past saved_phone lands on
\* the first character of saved_username, which then holds the empty string.
SavedName(v, ovf) == IF ovf /\ OverflowsPhone(v) THEN Empty ELSE v[1]

SameUser(v, username, ovf) ==
  Len(v) >= 1 /\ strcmp(username, SavedName(v, ovf)) = 0

SameUserAndPhone(v, username, phone, ovf) ==
  /\ Len(v) = 2
  /\ strcmp(username, SavedName(v, ovf)) = 0
  /\ strcmp(phone, v[2]) = 0

username_exists(file, username, ovf) ==
  \E i \in DOMAIN file : SameUser(sscanf(file[i], UserFmt), username, ovf)

\* A check that looks at the phone only.
validate_user_credentials_PhoneOnly(file, username, phone, ovf) ==
  \E i \in DOMAIN file :
     Len(sscanf(file[i], UserFmt)) = 2 /\ strcmp(phone, sscanf(file[i], UserFmt)[2]) = 0

validate_user_credentials(file, username, phone, ovf) ==
  \E i \in DOMAIN file :
     SameUserAndPhone(sscanf(file[i], UserFmt), username, phone, ovf)

\* register_user: [ok, file]
register_user(file, username, phone, ovf) ==
  IF username_exists(file, username, ovf)
  THEN [ok |-> FALSE, file |-> file]
  ELSE [ok |-> TRUE, file |-> Append(file, UserLine(username, phone))]

FirstOrEmpty(v) == IF Len(v) >= 1 THEN v[1] ELSE Empty

\* The user name sscanf(line, "%[^:]:", saved_username) leaves for a line.
SavedUsername(line) == FirstOrEmpty(sscanf(line, NameFmt))

MAX_LEN == 100

\* fgets(line, size, file): at most size - 1 characters of the line.
fgets(line, size) == SubSeq(line, 1, Min({Len(line), size - 1}))

\* The pieces successive fgets calls read one stored line in.
RECURSIVE Pieces(_, _)
Pieces(line, size) ==
  IF Len(line) < size THEN <<line>>
  ELSE <<fgets(line, size)>> \o Pieces(SubSeq(line, size, Len(line)), size)

RECURSIVE FilePieces(_, _)
FilePieces(file, size) ==
  IF file = <<>> THEN <<>>
  ELSE Pieces(Head(file), size) \o FilePieces(Tail(file), size)

\* The lines of the file that the pieces written one after another make.
RECURSIVE LinesOf(_, _)
LinesOf(pieces, pending) ==
  IF pieces = <<>> THEN (IF pending = <<>> THEN <<>> ELSE <<pending>>)
  ELSE IF Head(pieces)[Len(Head(pieces))] = "\n"
  THEN <<pending \o Head(pieces)>> \o LinesOf(Tail(pieces), <<>>)
  ELSE LinesOf(Tail(pieces), pending \o Head(pieces))

\* What save_user_profile writes to the temporary file for the pieces read with
\* char line[MAX_LEN * 4]: every piece whose leading name is username is
\* replaced by the new row, every other piece is copied with fputs.
ReplacedProfiles(pieces, username, row) ==
  [i \in DOMAIN pieces |->
     IF strcmp(username, SavedUsername(pieces[i])) = 0 THEN row ELSE pieces[i]]

\* Some piece read has username as its leading name.
NameAmong(pieces, username) ==
  \E i \in DOMAIN pieces : strcmp(username, SavedUsername(pieces[i])) = 0

SavedPieces(pieces, username, row) ==
  IF NameAmong(pieces, username)
  THEN ReplacedProfiles(pieces, username, row)
  ELSE Append(pieces, row)

\* save_user_profile with data/user_profiles.txt present (initialize_files made
\* it): a row is appended when no piece matched.
save_user_profile(file, username, p) ==
  LinesOf(SavedPieces(FilePieces(file, MAX_LEN * 4), username,
                      ProfileLine(username, p)), <<>>)

\* The six variables get_user_profile's sscanf writes, after each line: the
\* caller's buffers keep what an earlier line (or the caller) left in them.
RECURSIVE ReadProfiles(_, _)

ReadProfilesFrom(file, v) == <<v>> \o ReadProfiles(Tail(file), v)

ReadProfiles(file, prev) ==
  IF file = <<>> THEN <<>>
  ELSE ReadProfilesFrom(file, Assigned(prev, sscanf(Head(file), ProfileFmt)))

\* The return at line `last`, whose variables are v.
ProfileReturned(file, nullOut, v, last) ==
  [found      |-> TRUE,
   full_name  |-> v[2],
   id_number  |-> v[3],
   email      |-> v[4],
   address    |-> v[5],
   phone      |-> v[6],
   null_write |-> nullOut /\ \E i \in 1..last : Len(sscanf(file[i], ProfileFmt)) >= 4]

\* hit: the lines whose user name is username; no such line: five strcpy(.., "").
ProfileLookedUp(file, nullOut, st, hit) ==
  IF hit = {}
  THEN [found |-> FALSE, full_name |-> Empty, id_number |-> Empty, email |-> Empty,
        address |-> Empty, phone |-> Empty, null_write |-> nullOut]
  ELSE ProfileReturned(file, nullOut, st[Min(hit)], Min(hit))

ProfileSearched(file, username, nullOut, st) ==
  ProfileLookedUp(file, nullOut, st,
                  {i \in DOMAIN st : strcmp(username, st[i][1]) = 0})

\* get_user_profile(username, full_name, id_number, email, address, phone).
\* buf: what the caller's buffers held before the call; nullOut: the caller
\* passed NULL for email, address and phone.  null_write: the call stored
\* through one of those NULL pointers (undefined behaviour).
get_user_profile(file, username, buf, nullOut) ==
  ProfileSearched(file, username, nullOut,
     ReadProfiles(file, <<Empty, buf.full_name, buf.id_number, buf.email,
                          buf.address, buf.phone>>))

----------------------------------------------------------------------------
(* validation.c *)

\* The date-overlap test of is_room_available for one parsed booking b.
Blocks(b, room_number, check_in, check_out) ==
  /\ b.room_number = room_number
  /\ strcmp(b.status, active) = 0
  /\ ~(strcmp(check_out, b.check_in_date) <= 0 \/ strcmp(check_in, b.check_out_date) >= 0)

NoneBlocks(st, room_number, check_in, check_out) ==
  ~\E i \in DOMAIN st : Blocks(BookingOf(st[i]), room_number, check_in, check_out)

\* g: what status and booking_id held before the first line was read.
is_room_available(file, room_number, check_in, check_out, g) ==
  NoneBlocks(ReadBookings(file, BookingUninit(g)), room_number, check_in, check_out)

profile_exists(file, username) == NameAmong(FilePieces(file, MAX_LEN * 4), username)

\* A username check that does not look at the first character.
is_valid_username_AnyFirst(username) ==
  /\ strlen(username) >= 3 /\ strlen(username) <= 20
  /\ \A i \in DOMAIN username : isalnum(username[i]) \/ username[i] = "_"

is_valid_username(username) ==
  /\ strlen(username) >= 3 /\ strlen(username) <= 20
  /\ isalpha(username[1])
  /\ \A i \in DOMAIN username : isalnum(username[i]) \/ username[i] = "_"

\* A phone check that looks at the length only.
is_valid_phone_AnyText(phone) ==
  strlen(phone) >= 10 /\ strlen(phone) <= 15

is_valid_phone(phone) ==
  /\ strlen(phone) >= 10 /\ strlen(phone) <= 15
  /\ \A i \in DOMAIN phone : isdigit(phone[i])

----------------------------------------------------------------------------
(* gui_management.c: the loaders *)

StoreRows(mine) ==
  [i \in DOMAIN mine |->
     [booking_id |-> mine[i][8], room_number |-> mine[i][2],
      check_in_date |-> mine[i][4], check_out_date |-> mine[i][5],
      total_price |-> mine[i][6], status |-> mine[i][7]]]

\* load_user_bookings_into_store: the rows appended to the list store.
\* g: what the loader's status and booking_id held before the first line.
load_user_bookings_into_store(file, username, g) ==
  StoreRows(SelectSeq(ReadBookings(file, BookingUninit(g)),
                      LAMBDA v : strcmp(v[1], username) = 0))

----------------------------------------------------------------------------
(* gui_management.c: the handlers.  status_label holds the message shown;   *)
(* call records the last handler run and the inputs it read (a history      *)
(* variable).  A handler is written as a chain of operators, each taking    *)
(* the values computed so far as parameters.                                *)

OtherCall == [op |-> "other"]

\* After register_user returned r.
SignedUp(r) ==
  /\ users_file' = r.file
  /\ status_label' = [msg |-> IF r.ok THEN "registered" ELSE "username_taken"]
  /\ screen' = IF r.ok THEN "customer_login" ELSE screen

\* on_sign_up_submit_clicked
on_sign_up_submit_clicked(username, phone, confirm_phone, ovf) ==
  /\ UNCHANGED <<rooms_file, bookings_file, profiles_file, current_user, clock, admin_file, is_admin_logged_in>>
  /\ UNCHANGED in_flight
  /\ call' = [op |-> "sign_up", username |-> username, phone |-> phone,
              confirm_phone |-> confirm_phone]
  /\ IF ~is_valid_username(username)
     THEN status_label' = [msg |-> "bad_username"] /\ UNCHANGED <<users_file, screen>>
     ELSE IF ~is_valid_phone(phone)
     THEN status_label' = [msg |-> "bad_phone"] /\ UNCHANGED <<users_file, screen>>
     ELSE IF strcmp(phone, confirm_phone) # 0
     THEN status_label' = [msg |-> "phone_mismatch"] /\ UNCHANGED <<users_file, screen>>
     ELSE SignedUp(register_user(users_file, username, phone, ovf))

\* on_customer_login_submit_clicked
on_customer_login_submit_clicked(username, phone, ovf) ==
  /\ UNCHANGED <<rooms_file, bookings_file, users_file, profiles_file, clock, admin_file, is_admin_logged_in>>
  /\ UNCHANGED in_flight
  /\ call' = OtherCall
  /\ IF validate_user_credentials(users_file, username, phone, ovf)
     THEN /\ current_user' = username
          /\ screen' = "customer_menu"
          /\ status_label' = IF ~profile_exists(profiles_file, username)
                             THEN [msg |-> "complete_profile"] ELSE status_label
     ELSE /\ UNCHANGED <<current_user, screen>>
          /\ status_label' = [msg |-> "bad_login"]

\* on_back_to_main_clicked
on_back_to_main_clicked ==
  /\ current_user' = Empty
  /\ is_admin_logged_in' = FALSE
  /\ UNCHANGED in_flight
  /\ screen' = "main_menu"
  /\ call' = [op |-> "back", from |-> screen]
  /\ UNCHANGED <<rooms_file, bookings_file, users_file, profiles_file, clock, admin_file,
                 status_label>>

\* update_user_profile_dialog, answered with Save: reached from the customer
\* menu, which is shown only after a login.
update_user_profile_dialog(p) ==
  /\ current_user # Empty
  /\ profiles_file' = save_user_profile(profiles_file, current_user, p)
  /\ status_label' = [msg |-> "profile_updated"]
  /\ UNCHANGED in_flight
  /\ UNCHANGED screen
  /\ call' = OtherCall
  /\ UNCHANGED <<rooms_file, bookings_file, users_file, current_user, clock, admin_file, is_admin_logged_in>>

\* A rewrite that sets the status of every room, not only the chosen one.
WithStatusAll(r, room_number, status) == [r EXCEPT !.status = status]

\* strcpy(rooms[i].status, status) for the chosen room.
WithStatus(r, room_number, status) ==
  IF r.room_number = room_number THEN [r EXCEPT !.status = status] ELSE r

\* The room-status rewrite at the end of on_book_room_clicked and of
\* on_cancel_booking_clicked: every line is parsed into its own Room of the
\* array, the chosen room's status is set, and all are written back.
RewriteRooms(file, room_number, status) ==
  [i \in DOMAIN file |->
     RoomLine(WithStatus(RoomOf(ScanRoom(RoomUninit, file[i])), room_number, status))]

\* A price lookup that charges one night whatever the stay.
PriceAtFlat(room, hit, nights) ==
  IF hit = {} THEN 0 ELSE room[Min(hit)].price

\* hit: the lines whose room number matches; the loop stops at the first.
PriceAt(room, hit, nights) ==
  IF hit = {} THEN 0 ELSE room[Min(hit)].price * nights

PriceAmong(room, room_number, nights) ==
  PriceAt(room, {i \in DOMAIN room : room[i].room_number = room_number}, nights)

\* The price lookup of on_book_room_clicked: room.price * nights of the first
\* line whose room number matches, 0 when none does.
RoomPriceFor(file, room_number, nights) ==
  PriceAmong([i \in DOMAIN file |-> RoomOf(ScanRoom(RoomUninit, file[i]))],
             room_number, nights)

\* The booking id on_book_room_clicked generates.
GenerateBookingId(now) == now % 1000000

\* The profile check of on_book_room_clicked on what get_user_profile left.
ProfileCheck(prof, survive) ==
  IF prof.null_write /\ ~survive THEN "crash"
  ELSE IF strlen(prof.full_name) = 0 \/ strlen(prof.id_number) = 0
  THEN "profile_incomplete"
  ELSE "ok"

\* The checks of on_book_room_clicked, in its order: the message of the first
\* one that fails, or "ok".  g: the values of uninitialised memory this run
\* meets (the reader's status and booking_id, the handler's full_name and
\* id_number buffers) and whether a store through a NULL pointer is survived.
BookChecks(room_number, formatted_in, formatted_out, g) ==
  IF strcmp(formatted_in, invalid) = 0 \/ strcmp(formatted_out, invalid) = 0
  THEN "invalid_date"
  ELSE IF strcmp(formatted_in, formatted_out) >= 0
  THEN "checkout_not_after"
  ELSE IF ~is_date_in_future(formatted_in, clock)
  THEN "checkin_in_past"
  ELSE IF ~is_room_available(bookings_file, room_number, formatted_in,
                             formatted_out, g)
  THEN "room_unavailable"
  ELSE ProfileCheck(
         get_user_profile(profiles_file, current_user,
            [full_name |-> g.full_name, id_number |-> g.id_number,
             email |-> Empty, address |-> Empty, phone |-> Empty], TRUE),
         g.survive)

\* The booking record on_book_room_clicked writes.
NewBooking(room_number, formatted_in, formatted_out, price) ==
  [username |-> current_user, room_number |-> room_number,
   booking_date |-> StrfDateTime(localtime(clock)),
   check_in_date |-> formatted_in, check_out_date |-> formatted_out,
   total_price |-> price, status |-> active,
   booking_id |-> GenerateBookingId(clock)]

\* on_book_room_clicked after its checks passed and the price was found.
BookRecorded(room_number, formatted_in, formatted_out, nights, price) ==
  /\ bookings_file' =
       Append(bookings_file,
              BookingLine(NewBooking(room_number, formatted_in, formatted_out, price)))
  /\ rooms_file' = RewriteRooms(rooms_file, room_number, Booked)
  /\ status_label' = [msg |-> "confirmed", booking_id |-> GenerateBookingId(clock),
                      total |-> FmtF2(price), nights |-> nights]
  /\ UNCHANGED current_user

BookPriced(room_number, formatted_in, formatted_out, nights) ==
  BookRecorded(room_number, formatted_in, formatted_out, nights,
               RoomPriceFor(rooms_file, room_number, nights))

\* on_book_room_clicked after its checks gave verdict.
BookChecked(room_number, formatted_in, formatted_out, verdict) ==
  IF verdict = "crash"
  THEN \* the process dies and is started again: the files are as they were
       /\ status_label' = [msg |-> "welcome"]
       /\ current_user' = Empty
       /\ UNCHANGED <<rooms_file, bookings_file>>
  ELSE IF verdict # "ok"
  THEN /\ status_label' = [msg |-> verdict]
       /\ UNCHANGED <<rooms_file, bookings_file, current_user>>
  ELSE BookPriced(room_number, formatted_in, formatted_out,
                  calculate_duration(formatted_in, formatted_out))

BookParsed(room_number, formatted_in, formatted_out, g) ==
  BookChecked(room_number, formatted_in, formatted_out,
              BookChecks(room_number, formatted_in, formatted_out, g))

\* on_book_room_clicked with room_number selected in the room list and the
\* two date entries holding checkin and checkout.
on_book_room_clicked(room_number, checkin, checkout, g) ==
  /\ UNCHANGED <<users_file, profiles_file, clock, admin_file, is_admin_logged_in>>
  /\ IF strlen(current_user) = 0
     THEN \* the selection and the entries are not read
          /\ UNCHANGED in_flight
          /\ UNCHANGED screen
          /\ call' = [op |-> "book", user |-> current_user]
          /\ status_label' = [msg |-> "login_first"]
          /\ UNCHANGED <<rooms_file, bookings_file, current_user>>
     ELSE /\ UNCHANGED in_flight
          /\ UNCHANGED screen
          /\ call' = [op |-> "book", user |-> current_user,
                      room_number |-> room_number, checkin |-> checkin,
                      checkout |-> checkout]
          /\ BookParsed(room_number, parse_date(checkin), parse_date(checkout), g)

\* strcpy(bookings[count].status, "canceled") for the selected id.
Canceled(b, booking_id) ==
  IF b.booking_id = booking_id THEN [b EXCEPT !.status = canceled] ELSE b

\* The Booking array of on_cancel_booking_clicked after its read loop: each
\* line is parsed into its own element, whose status and booking_id hold what
\* the memory held (garb[i]) unless the line assigns them; an element whose
\* booking_id equals the selected one gets status "canceled".
CancelArray(file, booking_id, garb) ==
  [i \in DOMAIN file |->
     Canceled(BookingOf(ScanBooking(BookingUninit(garb[i]), file[i])), booking_id)]

\* The request of the run just before, when that run was a Book turned down
\* because the room was taken, with the bookings file it was turned down on.
BlockedRequest ==
  IF call.op = "book" /\ status_label.msg = "room_unavailable"
  THEN [room_number |-> call.room_number, checkin |-> call.checkin,
        checkout |-> call.checkout, before |-> bookings_file]
  ELSE [room_number |-> 0]

\* 2025-06-01 10:05:30, the moment the program is started.
Epoch0 == DaysFromCivil(2025, 6, 1) * SecondsPerDay + 10 * 3600 + 5 * 60 + 30

GarbageInt == {0, GenerateBookingId(Epoch0)}

\* What a reader's status and booking_id may hold before a line assigns them.
ReaderGarbage == [status : GarbageText, booking_id : GarbageInt]

NoGarbage == [status |-> Empty, booking_id |-> 0]

\* What the status and booking_id of a loader may hold before the first line
\* of file: it shows only when that line leaves them unassigned.
ReaderGarbageOf(file) ==
  IF file # <<>> /\ Len(sscanf(file[1], BookingFmt)) < 8
  THEN ReaderGarbage ELSE {NoGarbage}

\* after: the bookings file as rewritten.  hit: the elements with the selected
\* id; the room is that of the first.  The handler ends with
\* load_user_bookings_into_store on the list store as it is (the store is not
\* cleared first): appended holds the rows this adds below the rows shown.
CancelStored(booking_id, bookings, hit, after) ==
  /\ bookings_file' = after
  /\ rooms_file' = IF hit # {}
                   THEN RewriteRooms(rooms_file, bookings[Min(hit)].room_number,
                                     Available)
                   ELSE rooms_file
  /\ status_label' = [msg |-> "canceled_ok", booking_id |-> booking_id]
  /\ UNCHANGED in_flight
  /\ UNCHANGED screen
  /\ \E g \in ReaderGarbageOf(after) :
        call' = [op |-> "cancel", booking_id |-> booking_id, blocked |-> BlockedRequest,
                 appended |-> load_user_bookings_into_store(after, current_user, g)]
  /\ UNCHANGED <<users_file, profiles_file, current_user, clock, admin_file, is_admin_logged_in>>

CancelFound(booking_id, bookings, hit) ==
  CancelStored(booking_id, bookings, hit,
               [i \in DOMAIN bookings |-> BookingLine(bookings[i])])

CancelRead(booking_id, bookings) ==
  CancelFound(booking_id, bookings,
              {i \in DOMAIN bookings : bookings[i].booking_id = booking_id})

\* on_cancel_booking_clicked with the row of booking_id selected in the list
\* of the user's bookings.
on_cancel_booking_clicked(booking_id, garb) ==
  /\ current_user # Empty
  /\ CancelRead(booking_id, CancelArray(bookings_file, booking_id, garb))

----------------------------------------------------------------------------
(* The inputs explored *)

amy == <<"a", "m", "y">>

UsernameInputs == {amy}

PhoneInputs == {<<"5", "5", "5", "1", "2", "3", "4", "5", "6", "7">>}

NoProfile == [full_name |-> Empty, id_number |-> Empty, email |-> Empty,
              address |-> Empty, phone |-> Empty]

Al == <<"A", "l">>

\* The profile typed into the dialog: a full name and an id number.
ProfileInputs ==
  { [NoProfile EXCEPT !.full_name = Al, !.id_number = <<"7">>] }

\* Texts typed into the date entries.
Jun10 == <<"2", "0", "2", "5", "-", "0", "6", "-", "1", "0">>
Jun12 == <<"1", "2", "/", "0", "6", "/", "2", "0", "2", "5">>
Jul02 == <<"2", "0", "2", "5", "-", "0", "7", "-", "0", "2">>
May30 == <<"2", "0", "2", "5", "-", "0", "5", "-", "3", "0">>
Soon  == <<"s", "o", "o", "n">>

\* The room selected and the two dates typed when Book is clicked.
BookInputs ==
  { <<101, Jun10, Jun12>>, <<102, Jun10, Jul02>>,
    <<101, Soon, Jun10>>, <<101, Jun12, Jun10>>, <<101, May30, Jun10>> }

\* A reader that keeps its variables across lines shows what they held at
\* first only when the first line leaves them unassigned.
ReaderGarbageNow ==
  IF bookings_file # <<>> /\ Len(sscanf(bookings_file[1], BookingFmt)) < 8
  THEN ReaderGarbage ELSE {NoGarbage}

\* What the full_name and id_number buffers of on_book_room_clicked may hold:
\* it shows only when some profile line leaves them unassigned.
BufferGarbageNow ==
  IF \E i \in DOMAIN profiles_file : Len(sscanf(profiles_file[i], ProfileFmt)) < 3
  THEN GarbageText ELSE {Empty}

\* Whether get_user_profile stores through a NULL pointer in this state.
NullWriteNow ==
  get_user_profile(profiles_file, current_user, NoProfile, TRUE).null_write

\* What one run of on_book_room_clicked may meet in uninitialised memory, and
\* whether the process survives a store through NULL.
BookGarbage ==
  [status : {g.status : g \in ReaderGarbageNow}, booking_id : {0},
   full_name : BufferGarbageNow, id_number : BufferGarbageNow,
   survive : IF NullWriteNow THEN BOOLEAN ELSE {TRUE}]

\* The memory under the Booking array of on_cancel_booking_clicked, taken to
\* hold the same in every element: it shows only in the elements whose line
\* leaves status or booking_id unassigned.
CancelGarbage(file) ==
  {[i \in DOMAIN file |-> g] : g \in ReaderGarbage}

\* The booking ids the list of the user's bookings can show.
IdsOf(rows) == {rows[i].booking_id : i \in DOMAIN rows}

ShownIds(file, username) ==
  UNION {IdsOf(load_user_bookings_into_store(file, username, g0)) :
           g0 \in ReaderGarbageNow}

\* Whether the users file holds a phone that overflows saved_phone, and so
\* what the store past the array may do.
PhoneOverflowNow ==
  IF \E i \in DOMAIN users_file : OverflowsPhone(sscanf(users_file[i], UserFmt))
  THEN BOOLEAN ELSE {FALSE}

\* Most booking lines the model lets the file grow to.
MaxBookings == 2

\* The windows of the program open on the same data files.
Actors == {1, 2}

\* No Book is under way in a window.
NoRequest == [room_number |-> 0]

NoneUnderWay == [a \in Actors |-> NoRequest]

----------------------------------------------------------------------------
Init ==
  /\ in_flight = NoneUnderWay
  /\ screen = "main_menu"
  /\ rooms_file = initialize_files.rooms
  /\ bookings_file = initialize_files.bookings
  /\ users_file = initialize_files.users
  /\ profiles_file = initialize_files.profiles
  /\ current_user = Empty
  /\ clock = Epoch0
  /\ status_label = [msg |-> "welcome"]
  /\ call = [op |-> "none"]
  /\ admin_file = initialize_files.admin
  /\ is_admin_logged_in = FALSE

SignUp ==
  \E u \in UsernameInputs, p \in PhoneInputs, c \in PhoneInputs :
     \E ovf \in PhoneOverflowNow : on_sign_up_submit_clicked(u, p, c, ovf)

Login ==
  \E u \in UsernameInputs, p \in PhoneInputs, ovf \in PhoneOverflowNow :
     on_customer_login_submit_clicked(u, p, ovf)

Logout == on_back_to_main_clicked

SaveProfile == \E p \in ProfileInputs : update_user_profile_dialog(p)

\* A Book that would append is explored only below MaxBookings lines.
\* The room numbers of the rows the room list shows: the row selected for a
\* Book is one of them.
ListedRooms(file) ==
  {RoomOf(ScanRoom(RoomUninit, file[i])).room_number : i \in DOMAIN file}

Book ==
  \E g \in BookGarbage, inp \in BookInputs :
     /\ inp[1] \in ListedRooms(rooms_file)
     /\ on_book_room_clicked(inp[1], inp[2], inp[3], g)
     /\ Len(bookings_file') <= MaxBookings

Cancel ==
  \E id \in ShownIds(bookings_file, current_user) :
     \E garb \in CancelGarbage(bookings_file) :
        on_cancel_booking_clicked(id, garb)

Next == SignUp \/ Login \/ Logout \/ SaveProfile \/ Book \/ Cancel

Spec == Init /\ [][Next]_vars

----------------------------------------------------------------------------
(* The records as the files lay them out *)

\* The texts between the ':' of a line, up to its newline.
RECURSIVE SegmentsFrom(_, _)

SegmentsAt(line, p, q) ==
  IF q > Len(line) \/ line[q] = "\n" THEN <<SubSeq(line, p, q - 1)>>
  ELSE <<SubSeq(line, p, q - 1)>> \o SegmentsFrom(line, q + 1)

SegmentsFrom(line, p) == SegmentsAt(line, p, SpanEnd(line, p, {":", "\n"}))

Segments(line) == SegmentsFrom(line, 1)

\* seg[a..b] joined by ':' again.
RECURSIVE Joined(_, _, _)
Joined(seg, a, b) ==
  IF a > b THEN Empty
  ELSE IF a = b THEN seg[a]
  ELSE seg[a] \o Colon \o Joined(seg, a + 1, b)

\* The eight fields of a booking line: username and room_number are its first
\* two texts, check_in_date .. booking_id its last five, booking_date is what
\* lies between (it may hold ':').
FieldsOfSegments(seg) ==
  [username       |-> seg[1],
   room_number    |-> seg[2],
   booking_date   |-> Joined(seg, 3, Len(seg) - 5),
   check_in_date  |-> seg[Len(seg) - 4],
   check_out_date |-> seg[Len(seg) - 3],
   total_price    |-> seg[Len(seg) - 2],
   status         |-> seg[Len(seg) - 1],
   booking_id     |-> seg[Len(seg)]]

RecordFields(line) == FieldsOfSegments(Segments(line))

\* The five fields of a room line.
RoomFieldsOfSegments(seg) ==
  [room_number |-> seg[1], type |-> seg[2], price |-> seg[3], status |-> seg[4],
   facilities  |-> Joined(seg, 5, Len(seg))]

RoomFields(line) == RoomFieldsOfSegments(Segments(line))

\* The last line of the bookings file.
LastBooking == bookings_file[Len(bookings_file)]

\* The state is the one a Book that was confirmed has just left.
BookConfirmed == call.op = "book" /\ status_label.msg = "confirmed"

\* Half-open windows [a_in, a_out) and [b_in, b_out) of ISO dates overlap.
Overlap(a_in, a_out, b_in, b_out) ==
  ~(strcmp(a_out, b_in) <= 0 \/ strcmp(a_in, b_out) >= 0)

----------------------------------------------------------------------------
(* Claims *)

ActiveOverlap(a, b) ==
  /\ a.room_number = b.room_number
  /\ a.status = active /\ b.status = active
  /\ Overlap(a.check_in_date, a.check_out_date, b.check_in_date, b.check_out_date)

\* C1: after any sequence of Book and Cancel from an empty booking file, no
\* two booking records of one room with status active have overlapping
\* [check_in, check_out) windows.
C1_NoActiveOverlap ==
  \A i, j \in DOMAIN bookings_file :
     i < j => ~ActiveOverlap(RecordFields(bookings_file[i]),
                             RecordFields(bookings_file[j]))

\* What Book has just written, from the inputs it read and the confirmation
\* it shows, against what a reader's sscanf makes of the line (b).
ReadsBackAs(b) ==
  /\ b.username = call.user
  /\ b.room_number = call.room_number
  /\ b.booking_date = StrfDateTime(localtime(clock))
  /\ b.check_in_date = parse_date(call.checkin)
  /\ b.check_out_date = parse_date(call.checkout)
  /\ FmtF2(b.total_price) = status_label.total
  /\ b.status = active
  /\ b.booking_id = status_label.booking_id

\* C2: the record a Book appended, read back by the program's booking
\* readers (their common sscanf), gives the eight values Book wrote.
C2_RoundTrip ==
  BookConfirmed =>
     \A g \in ReaderGarbage :
        ReadsBackAs(BookingOf(ScanBooking(BookingUninit(g), LastBooking)))

\* Every line of file has n fields: no field holds a ':' and the line's only
\* newline is its last character.
FieldCount(file, n) ==
  \A i \in DOMAIN file :
     /\ Len(Segments(file[i])) = n
     /\ SpanEnd(file[i], 1, {"\n"}) = Len(file[i])

\* C3: in every record the program writes (rooms, bookings, users,
\* profiles) no field value holds ':' or a newline.
C3_NoDelimiterInFields ==
  /\ FieldCount(rooms_file, 5)
  /\ FieldCount(bookings_file, 8)
  /\ FieldCount(users_file, 2)
  /\ FieldCount(profiles_file, 6)

\* The step is a run of on_book_room_clicked by a logged-in user.
BookStep == call'.op = "book" /\ call'.user # Empty

\* Record rec is an active booking of the room whose window overlaps [in, out).
RecordBlocks(rec, room_number, in, out) ==
  /\ rec.room_number = FmtD(room_number)
  /\ rec.status = active
  /\ Overlap(in, out, rec.check_in_date, rec.check_out_date)

ActiveOverlapping(file, room_number, in, out) ==
  \E i \in DOMAIN file : RecordBlocks(RecordFields(file[i]), room_number, in, out)

\* The dates are valid, check_in < check_out and check_in is not in the past.
WindowOk(in, out) ==
  /\ in # invalid /\ out # invalid
  /\ strcmp(in, out) < 0
  /\ is_date_in_future(in, clock)

UnavailableIffOverlap(room_number, in, out) ==
  WindowOk(in, out) =>
     (status_label'.msg = "room_unavailable"
        <=> ActiveOverlapping(bookings_file, room_number, in, out))

\* C4: with valid dates, check_in < check_out and check_in not in the past,
\* Book on room r for [a, b) is rejected as RoomUnavailable exactly when some
\* active booking on r has a window [c, d) with not (b <= c or a >= d).
C4_UnavailableIffOverlap ==
  [][BookStep =>
       UnavailableIffOverlap(call'.room_number, parse_date(call'.checkin),
                             parse_date(call'.checkout))]_vars

\* The six fields of a profile line.
ProfileFieldsOfSegments(seg) ==
  [username |-> seg[1], full_name |-> seg[2], id_number |-> seg[3],
   email |-> seg[4], address |-> seg[5], phone |-> Joined(seg, 6, Len(seg))]

ProfileFields(line) == ProfileFieldsOfSegments(Segments(line))

CompleteRowOf(row, username) ==
  row.username = username /\ row.full_name # Empty /\ row.id_number # Empty

\* username has no profile row, or a row without a full name or an id number.
ProfileIncomplete(file, username) ==
  \/ ~\E i \in DOMAIN file : ProfileFields(file[i]).username = username
  \/ \E i \in DOMAIN file :
        /\ ProfileFields(file[i]).username = username
        /\ ~CompleteRowOf(ProfileFields(file[i]), username)

\* The outcome of Book when its checks are made in the stated order.
StatedOutcome(room_number, in, out, username) ==
  IF in = invalid \/ out = invalid THEN "invalid_date"
  ELSE IF strcmp(in, out) >= 0 THEN "checkout_not_after"
  ELSE IF ~is_date_in_future(in, clock) THEN "checkin_in_past"
  ELSE IF ActiveOverlapping(bookings_file, room_number, in, out)
  THEN "room_unavailable"
  ELSE IF ProfileIncomplete(profiles_file, username) THEN "profile_incomplete"
  ELSE "confirmed"

\* C5: Book checks the date format, check_in < check_out, check_in today or
\* later, availability and profile completeness in this order; the first
\* check that fails is the error reported, and on a failure no booking is
\* appended and no room record changes.
C5_FirstFailingCheckReported ==
  [][BookStep =>
       /\ status_label'.msg = StatedOutcome(call'.room_number, parse_date(call'.checkin),
                                            parse_date(call'.checkout), call'.user)
       /\ status_label'.msg # "confirmed"
            => bookings_file' = bookings_file /\ rooms_file' = rooms_file]_vars

\* Every check before the profile check passes.
ReachesProfileCheck(room_number, in, out) ==
  /\ WindowOk(in, out)
  /\ ~ActiveOverlapping(bookings_file, room_number, in, out)

\* C6: Book by a logged-in user whose profile row is missing, or has an empty
\* full name or id number, fails with ProfileIncomplete and changes no state.
C6_IncompleteProfileRejected ==
  [][(/\ BookStep
      /\ ReachesProfileCheck(call'.room_number, parse_date(call'.checkin),
                             parse_date(call'.checkout))
      /\ ProfileIncomplete(profiles_file, call'.user))
       => /\ status_label'.msg = "profile_incomplete"
          /\ UNCHANGED <<rooms_file, bookings_file, users_file, profiles_file,
                         current_user>>]_vars

\* The day number of an ISO date YYYY-MM-DD.
DayNumber(d) ==
  DaysFromCivil(NatOf(SubSeq(d, 1, 4)), NatOf(SubSeq(d, 6, 7)), NatOf(SubSeq(d, 9, 10)))

\* The amount, in hundredths, that a text with two decimals states.
CentsOf(text) ==
  100 * NatOf(SubSeq(text, 1, Len(text) - 3)) + NatOf(SubSeq(text, Len(text) - 1, Len(text)))

PriceOfFirst(file, hit) == CentsOf(RoomFields(file[Min(hit)]).price)

\* The nightly price the rooms file states for a room.
NightlyPrice(file, room_number) ==
  PriceOfFirst(file, {i \in DOMAIN file : RoomFields(file[i]).room_number = room_number})

TotalMatches(stored, price, nights) ==
  /\ stored = FmtF2(price * nights)
  /\ status_label.total = stored
  /\ status_label.nights = nights

TotalOfRecord(rec) ==
  TotalMatches(rec.total_price, NightlyPrice(rooms_file, rec.room_number),
               DayNumber(rec.check_out_date) - DayNumber(rec.check_in_date))

\* C7: a successful Book stores total_price = price_per_night * nights, where
\* nights is the calendar-day difference of check_out and check_in, and the
\* confirmation reports the same nights and total.
C7_TotalIsPriceTimesNights == BookConfirmed => TotalOfRecord(RecordFields(LastBooking))

\* A stay of 22 nights in room 102 has been confirmed.
C7_Witness ==
  /\ BookConfirmed
  /\ status_label.nights = 22
  /\ RecordFields(LastBooking).room_number = FmtD(102)

ConfirmedBookStep == BookStep /\ status_label'.msg = "confirmed"

RoomAfterBook(r, before, after, room_number) ==
  IF r.room_number = room_number
  THEN RoomFields(after) = [r EXCEPT !.status = Booked]
  ELSE after = before

\* C8: a successful Book appends exactly one record, with status active, and
\* leaves every earlier record as it was; in the rooms file only the booked
\* room's record changes, and only its status, to Booked.
C8_BookAppendsOneAndMarksRoom ==
  [][ConfirmedBookStep =>
       /\ Len(bookings_file') = Len(bookings_file) + 1
       /\ SubSeq(bookings_file', 1, Len(bookings_file)) = bookings_file
       /\ RecordFields(bookings_file'[Len(bookings_file')]).status = active
       /\ Len(rooms_file') = Len(rooms_file)
       /\ \A i \in DOMAIN rooms_file :
             RoomAfterBook(RoomFields(rooms_file[i]), rooms_file[i], rooms_file'[i],
                           FmtD(call'.room_number))]_vars

\* A second booking has been confirmed after a first, and rooms 101 and 102
\* are both Booked while room 103 is not.
C8_Witness ==
  /\ BookConfirmed
  /\ Len(bookings_file) = 2
  /\ RoomFields(rooms_file[1]).status = Booked
  /\ RoomFields(rooms_file[2]).status = Booked
  /\ RoomFields(rooms_file[3]).status = Available

\* The step is a run of on_cancel_booking_clicked on a selected booking.
CancelStep == call'.op = "cancel"

RecordAfterCancel(a, before, after, booking_id) ==
  IF a.booking_id = booking_id
  THEN RecordFields(after) = [a EXCEPT !.status = canceled]
  ELSE after = before

\* C9: Cancel(id) changes the status of the record with that id to canceled;
\* the other fields of that record, and every other record, stay as they were.
C9_CancelChangesOnlyStatus ==
  [][CancelStep =>
       /\ Len(bookings_file') = Len(bookings_file)
       /\ \A i \in DOMAIN bookings_file :
             RecordAfterCancel(RecordFields(bookings_file[i]), bookings_file[i],
                               bookings_file'[i], FmtD(call'.booking_id))]_vars

\* Some record has the id, and every record that has it is canceled.
AlreadyCanceled(file, booking_id) ==
  /\ \E i \in DOMAIN file : RecordFields(file[i]).booking_id = booking_id
  /\ \A i \in DOMAIN file :
        RecordFields(file[i]).booking_id = booking_id
          => RecordFields(file[i]).status = canceled

\* C10: canceling a booking that is already canceled leaves the bookings and
\* the rooms unchanged, also when the room has since been booked again.
C10_CancelCanceledIsNoOp ==
  [][(CancelStep /\ AlreadyCanceled(bookings_file, FmtD(call'.booking_id)))
       => bookings_file' = bookings_file /\ rooms_file' = rooms_file]_vars

\* The date is_date_in_future takes for today.
Today == StrfDate(localtime(clock))

LiveFor(rec, room_number, today) ==
  /\ rec.room_number = room_number
  /\ rec.status = active
  /\ strcmp(rec.check_out_date, today) >= 0

\* The room has an active booking that ends today or later.
RoomHasLiveBooking(file, room_number, today) ==
  \E i \in DOMAIN file : LiveFor(RecordFields(file[i]), room_number, today)

StatusDerived(r) ==
  IF RoomHasLiveBooking(bookings_file, r.room_number, Today)
  THEN r.status = Booked ELSE r.status = Available

\* C11: after any sequence of Book and Cancel, a room's stored status is
\* Booked exactly when the room has at least one active booking ending today
\* or later, and Available otherwise.
C11_RoomStatusDerived ==
  \A i \in DOMAIN rooms_file : StatusDerived(RoomFields(rooms_file[i]))

\* The lines of a file whose record blocks the request.
Blockers(file, room_number, in, out) ==
  {i \in DOMAIN file : RecordBlocks(RecordFields(file[i]), room_number, in, out)}

\* Exactly one record blocked the request, and it has the id that was canceled.
SoleBlockerIs(file, hit, booking_id) ==
  /\ Cardinality(hit) = 1
  /\ \A i \in hit : RecordFields(file[i]).booking_id = booking_id

\* The Cancel just run followed a Book turned down only because of the one
\* active booking that the Cancel then named.
CanceledTheBlocker(b, booking_id) ==
  /\ b.room_number # 0
  /\ SoleBlockerIs(b.before,
                   Blockers(b.before, b.room_number, parse_date(b.checkin),
                            parse_date(b.checkout)),
                   FmtD(booking_id))

SameRequest(b, c) ==
  /\ b.room_number = c.room_number
  /\ b.checkin = c.checkin
  /\ b.checkout = c.checkout

\* C12: if a Book request for room r and window W is rejected as
\* RoomUnavailable only because of one active booking B, then after Cancel(B)
\* the same request, by a user with a complete profile, succeeds.
C12_BookSucceedsAfterCancel ==
  [][(/\ BookStep
      /\ call.op = "cancel"
      /\ CanceledTheBlocker(call.blocked, call.booking_id)
      /\ SameRequest(call.blocked, call')
      /\ ~ProfileIncomplete(profiles_file, call'.user))
       => status_label'.msg = "confirmed"]_vars

----------------------------------------------------------------------------
(* date_utilities.c: get_week_range; booking_operations.c: the revenues *)

\* tm_wday that mktime fills in for a day number: 0 is Sunday.
WeekDay(days) == (days + 4) % 7

\* An offset that takes Sunday for the day before the week's Monday.
DaysToMondayAhead(wday) == 1 - wday

\* days_to_monday = (tm.tm_wday == 0) ? -6 : 1 - tm.tm_wday
DaysToMonday(wday) == IF wday = 0 THEN -6 ELSE 1 - wday

WeekFromMonday(monday) ==
  [start_date |-> StrfDate(localtime(monday * SecondsPerDay)),
   end_date   |-> StrfDate(localtime((monday + 6) * SecondsPerDay))]

WeekOfDay(days) == WeekFromMonday(days + DaysToMonday(WeekDay(days)))

WeekOfYmd(v) == WeekOfDay(DaysFromCivil(v[1], v[2], v[3]))

\* get_week_range for a date that sscanf "%d-%d-%d" converts in full.
get_week_range(date) == WeekOfYmd(sscanf(date, DashFmt))

\* strncmp(booking_date, date, 10) == 0 && strcmp(status, "active") == 0
DailyCounts(v, date) ==
  strncmp(v[3], date, 10) = 0 /\ strcmp(v[7], active) = 0

\* The test of calculate_weekly_revenue on booking_date_only.
WeeklyCounts(v, booking_date_only, week) ==
  /\ strcmp(booking_date_only, week.start_date) >= 0
  /\ strcmp(booking_date_only, week.end_date) <= 0
  /\ strcmp(v[7], active) = 0

RECURSIVE SumDaily(_, _, _)

\* revenue += total_price over the lines from the i-th on.
SumDaily(st, date, i) ==
  IF i > Len(st) THEN 0
  ELSE (IF DailyCounts(st[i], date) THEN st[i][6] ELSE 0) + SumDaily(st, date, i + 1)

RECURSIVE SumWeekly(_, _, _)

SumWeekly(st, week, i) ==
  IF i > Len(st) THEN 0
  ELSE (IF WeeklyCounts(st[i], strncpy(st[i][3], 10), week) THEN st[i][6] ELSE 0)
          + SumWeekly(st, week, i + 1)

\* g: what status and booking_id held before the first line was read.
calculate_daily_revenue(file, date, g) ==
  SumDaily(ReadBookings(file, BookingUninit(g)), date, 1)

calculate_weekly_revenue(file, date, g) ==
  SumWeekly(ReadBookings(file, BookingUninit(g)), get_week_range(date), 1)

\* The admin screens are reached from the main menu, where no customer is
\* logged in.
on_admin_view_revenue_clicked(date, g1, g2) ==
  /\ current_user = Empty
  /\ status_label' = [msg |-> "revenue", date |-> date,
                      daily  |-> FmtF2(calculate_daily_revenue(bookings_file, date, g1)),
                      weekly |-> FmtF2(calculate_weekly_revenue(bookings_file, date, g2))]
  /\ UNCHANGED in_flight
  /\ UNCHANGED screen
  /\ call' = [op |-> "revenue", date |-> date]
  /\ UNCHANGED <<rooms_file, bookings_file, users_file, profiles_file, current_user,
                 clock, admin_file, is_admin_logged_in>>

Jun01 == <<"2", "0", "2", "5", "-", "0", "6", "-", "0", "1">>
May28 == <<"2", "0", "2", "5", "-", "0", "5", "-", "2", "8">>

\* Dates typed into the revenue screen: the day the bookings are made, a
\* Sunday, and the Wednesday before it.
RevenueDates == {Jun01, May28}

ViewRevenue ==
  \E date \in RevenueDates, g1 \in ReaderGarbageNow, g2 \in ReaderGarbageNow :
     on_admin_view_revenue_clicked(date, g1, g2)

NextRevenue == Next \/ ViewRevenue

SpecRevenue == Init /\ [][NextRevenue]_vars

----------------------------------------------------------------------------
(* Claims on the revenues *)

RECURSIVE StatedSum(_, _, _, _)

\* The sum of total_price over the active records of the file whose
\* booking_date has its date portion in [from, to].
StatedSumOf(rec, from, to) ==
  IF /\ rec.status = active
     /\ strcmp(SubSeq(rec.booking_date, 1, 10), from) >= 0
     /\ strcmp(SubSeq(rec.booking_date, 1, 10), to) <= 0
  THEN CentsOf(rec.total_price) ELSE 0

StatedSum(file, from, to, i) ==
  IF i > Len(file) THEN 0
  ELSE StatedSumOf(RecordFields(file[i]), from, to) + StatedSum(file, from, to, i + 1)

RevenueShown == call.op = "revenue"

\* C13: daily_revenue(d) is the sum of total_price over exactly the records
\* with status active whose booking_date has date portion d; canceled
\* bookings contribute nothing.
C13_DailyRevenueIsActiveSum ==
  RevenueShown =>
     status_label.daily = FmtF2(StatedSum(bookings_file, call.date, call.date, 1))

\* The text of the date with a day number.
DateOfDay(n) == StrfDate(localtime(n * SecondsPerDay))

\* The day number of the Monday on or before day n (day 0 is a Thursday).
MondayOnOrBefore(n) == n - ((n + 3) % 7)

StatedWeekly(file, monday) ==
  StatedSum(file, DateOfDay(monday), DateOfDay(monday + 6), 1)

\* C14: weekly_revenue(d) is the sum of total_price over exactly the active
\* records whose booking_date has its date portion in [monday, sunday] of the
\* week containing d; canceled bookings of that week are excluded.
C14_WeeklyRevenueIsActiveSum ==
  RevenueShown =>
     status_label.weekly
        = FmtF2(StatedWeekly(bookings_file, MondayOnOrBefore(DayNumber(call.date))))

----------------------------------------------------------------------------
(* The date utilities applied to typed texts *)

SlashText(d, m, y) ==
  FmtPad(d, 2) \o <<"/">> \o FmtPad(m, 2) \o <<"/">> \o FmtPad(y, 4)

\* Year, month and day numbers the typed dates are made of.
DateTriples == {2024, 2025} \X {1, 2, 3, 12} \X {1, 10, 29, 31}

IsLeap(y) == (y % 4 = 0 /\ y % 100 # 0) \/ y % 400 = 0

DaysIn(y, m) ==
  IF m = 2 THEN (IF IsLeap(y) THEN 29 ELSE 28)
  ELSE IF m \in {4, 6, 9, 11} THEN 30 ELSE 31

\* The triples that are dates of the calendar.
CalendarTriples == {t \in DateTriples : t[3] <= DaysIn(t[1], t[2])}

CalendarDates == {YmdText(t[1], t[2], t[3]) : t \in CalendarTriples}

\* Texts that are in neither of the two shapes.
OddTexts ==
  { Soon, Empty,
    Jun10 \o <<"x">>,
    <<" ">> \o Jun10,
    <<"1", "2", "-", "0", "6", "-", "2", "0", "2", "5">>,
    <<"2", "0", "2", "5", "/", "0", "6", "/", "1", "0">>,
    <<"2", "0", "2", "5", "-", "0", "6">>,
    Jun12 \o <<" ", "9", "p", "m">> }

DateTexts ==
  {YmdText(t[1], t[2], t[3]) : t \in DateTriples}
     \cup {SlashText(t[3], t[2], t[1]) : t \in DateTriples}
     \cup OddTexts

\* parse_date(input, output) is called on a typed text.
ParseDate ==
  \E input \in DateTexts :
     /\ UNCHANGED in_flight
     /\ UNCHANGED screen
     /\ call' = [op |-> "parse_date", input |-> input]
     /\ status_label' = [msg |-> "parsed", output |-> parse_date(input)]
     /\ UNCHANGED <<rooms_file, bookings_file, users_file, profiles_file,
                    current_user, clock, admin_file, is_admin_logged_in>>

\* calculate_duration is called on two dates, the first not after the second.
NightsBetween ==
  \E check_in \in CalendarDates, check_out \in CalendarDates :
     /\ strcmp(check_in, check_out) <= 0
     /\ UNCHANGED in_flight
     /\ UNCHANGED screen
     /\ call' = [op |-> "calculate_duration", check_in |-> check_in,
                 check_out |-> check_out]
     /\ status_label' = [msg |-> "nights",
                         nights |-> calculate_duration(check_in, check_out)]
     /\ UNCHANGED <<rooms_file, bookings_file, users_file, profiles_file,
                    current_user, clock, admin_file, is_admin_logged_in>>

\* get_week_range(date, start_date, end_date) is called on a date.
WeekRange ==
  \E date \in CalendarDates \cup RevenueDates :
     /\ UNCHANGED in_flight
     /\ UNCHANGED screen
     /\ call' = [op |-> "get_week_range", date |-> date]
     /\ status_label' = [msg |-> "week", week |-> get_week_range(date)]
     /\ UNCHANGED <<rooms_file, bookings_file, users_file, profiles_file,
                    current_user, clock, admin_file, is_admin_logged_in>>

NextDates == ParseDate \/ NightsBetween \/ WeekRange

SpecDates == Init /\ [][NextDates]_vars

----------------------------------------------------------------------------
(* Claims on the date utilities *)

AllDigits(s) == \A i \in DOMAIN s : isdigit(s[i])

\* The text is four digits, '-', two digits, '-', two digits.
InDashShape(x) ==
  /\ Len(x) = 10 /\ x[5] = "-" /\ x[8] = "-"
  /\ AllDigits(SubSeq(x, 1, 4) \o SubSeq(x, 6, 7) \o SubSeq(x, 9, 10))

\* The text is two digits, '/', two digits, '/', four digits.
InSlashShape(x) ==
  /\ Len(x) = 10 /\ x[3] = "/" /\ x[6] = "/"
  /\ AllDigits(SubSeq(x, 1, 2) \o SubSeq(x, 4, 5) \o SubSeq(x, 7, 10))

\* DD/MM/YYYY rewritten as YYYY-MM-DD.
Rearranged(x) ==
  SubSeq(x, 7, 10) \o <<"-">> \o SubSeq(x, 4, 5) \o <<"-">> \o SubSeq(x, 1, 2)

NormalizedAsStated(x, out) ==
  /\ IF InDashShape(x) THEN out = x
     ELSE IF InSlashShape(x) THEN out = Rearranged(x)
     ELSE out = invalid
  /\ out # invalid => parse_date(out) = out

\* C15: normalize returns the zero-padded 10-character YYYY-MM-DD form for
\* every input in YYYY-MM-DD or DD/MM/YYYY shape, the Invalid marker for every
\* other input, and normalize(normalize(x)) = normalize(x).
C15_NormalizeShapes ==
  call.op = "parse_date" => NormalizedAsStated(call.input, status_label.output)

RECURSIVE DaysBeforeMonth(_, _)

\* The days of year y that lie before its month m.
DaysBeforeMonth(y, m) ==
  IF m = 1 THEN 0 ELSE DaysBeforeMonth(y, m - 1) + DaysIn(y, m - 1)

RECURSIVE DaysBeforeYear(_)

\* The days from 2024-01-01 to the first day of year y.
DaysBeforeYear(y) ==
  IF y <= 2024 THEN 0
  ELSE DaysBeforeYear(y - 1) + (IF IsLeap(y - 1) THEN 366 ELSE 365)

\* The days from 2024-01-01 to the date, counted on the calendar.
CalendarDay(y, m, d) == DaysBeforeYear(y) + DaysBeforeMonth(y, m) + d - 1

CalendarDayOf(date) ==
  CalendarDay(NatOf(SubSeq(date, 1, 4)), NatOf(SubSeq(date, 6, 7)),
              NatOf(SubSeq(date, 9, 10)))

DayCount(check_in, check_out) == CalendarDayOf(check_out) - CalendarDayOf(check_in)

\* C16: for two calendar dates check_in <= check_out in YYYY-MM-DD form,
\* nights_between(check_in, check_out) is the number of calendar days from
\* check_in to check_out, also across month and year boundaries.
C16_NightsAreCalendarDays ==
  call.op = "calculate_duration"
     => status_label.nights = DayCount(call.check_in, call.check_out)

\* The nights from 2024-12-31 to 2025-03-01, across a year and a February,
\* have been computed.
C16_Witness ==
  /\ call.op = "calculate_duration"
  /\ call.check_in = YmdText(2024, 12, 31)
  /\ call.check_out = YmdText(2025, 3, 1)
  /\ status_label.nights = 60

\* 2024-01-01 is a Monday, so a date is a Monday when its count from that day
\* is a multiple of 7, and a Sunday when the remainder is 6.
IsMonday(date) == CalendarDayOf(date) % 7 = 0

IsSunday(date) == CalendarDayOf(date) % 7 = 6

WeekAsStated(d, monday, sunday) ==
  /\ InDashShape(monday) /\ InDashShape(sunday)
  /\ IsMonday(monday)
  /\ CalendarDayOf(sunday) = CalendarDayOf(monday) + 6
  /\ CalendarDayOf(monday) <= CalendarDayOf(d)
  /\ CalendarDayOf(d) <= CalendarDayOf(sunday)
  /\ IsSunday(d) => sunday = d

\* C17: for a valid date d, week_range(d) returns (monday, sunday) where
\* monday is a Monday, sunday is 6 days after it, monday <= d <= sunday, and
\* the week of a Sunday ends on that Sunday.
C17_WeekRangeHoldsDate ==
  call.op = "get_week_range"
     => WeekAsStated(call.date, status_label.week.start_date,
                     status_label.week.end_date)

\* The week of Sunday 2025-06-01 has been computed: 2025-05-26 to 2025-06-01.
C17_Witness ==
  /\ call.op = "get_week_range"
  /\ call.date = Jun01
  /\ status_label.week.start_date = YmdText(2025, 5, 26)
  /\ status_label.week.end_date = Jun01

----------------------------------------------------------------------------
(* register_user and validate_user_credentials applied to typed texts *)

bob == <<"b", "o", "b">>

\* A phone of 15 digits, the longest is_valid_phone lets through.
Phone15 ==
  <<"5", "5", "5", "1", "2", "3", "4", "5", "6", "7", "8", "9", "0", "1", "2">>

UserNames == {amy, bob}

Phones == PhoneInputs \cup {Phone15}

\* Most user lines the model lets the file grow to.
MaxUsers == 3

\* After register_user returned r.
Registered(r, username, phone) ==
  /\ Len(r.file) <= MaxUsers
  /\ users_file' = r.file
  /\ UNCHANGED in_flight
  /\ UNCHANGED screen
  /\ call' = [op |-> "register_user", username |-> username, phone |-> phone,
              ok |-> r.ok]
  /\ UNCHANGED <<rooms_file, bookings_file, profiles_file, current_user, clock, admin_file, is_admin_logged_in,
                 status_label>>

\* register_user is called as on_sign_up_submit_clicked calls it, on a user
\* name and a phone that passed is_valid_username and is_valid_phone.
Register ==
  \E username \in UserNames, phone \in Phones, ovf \in PhoneOverflowNow :
     /\ is_valid_username(username) /\ is_valid_phone(phone)
     /\ Registered(register_user(users_file, username, phone, ovf), username, phone)

\* validate_user_credentials is called on the texts of the login screen.
Authenticate ==
  \E username \in UserNames, phone \in Phones, ovf \in PhoneOverflowNow :
     /\ UNCHANGED in_flight
     /\ UNCHANGED screen
     /\ call' = [op |-> "validate_user_credentials", username |-> username,
                 phone |-> phone,
                 ok |-> validate_user_credentials(users_file, username, phone, ovf)]
     /\ UNCHANGED <<rooms_file, bookings_file, users_file, profiles_file,
                    current_user, clock, admin_file, is_admin_logged_in, status_label>>

NextUsers == Register \/ Authenticate

SpecUsers == Init /\ [][NextUsers]_vars

----------------------------------------------------------------------------
(* Claims on the users *)

\* The two fields of a user line.
UserFieldsOfSegments(seg) == [username |-> seg[1], phone |-> Joined(seg, 2, Len(seg))]

UserFields(line) == UserFieldsOfSegments(Segments(line))

NamePresent(file, username) ==
  \E i \in DOMAIN file : UserFields(file[i]).username = username

UniqueNames(file) ==
  \A i, j \in DOMAIN file :
     UserFields(file[i]).username = UserFields(file[j]).username => i = j

RegisterAsStated(username, phone, ok) ==
  /\ IF NamePresent(users_file, username)
     THEN ok = FALSE /\ users_file' = users_file
     ELSE ok = TRUE /\ users_file' = Append(users_file, username \o Colon \o phone \o NL)
  /\ UniqueNames(users_file')

\* C18: register(username, phone) returns false and leaves the users
\* unchanged when the username is present; otherwise it appends the one row
\* username:phone and returns true; so no two user rows share a username.
C18_RegisterKeepsNamesUnique ==
  [][call'.op = "register_user"
       => RegisterAsStated(call'.username, call'.phone, call'.ok)]_vars

RowIs(row, username, phone) == row.username = username /\ row.phone = phone

\* Some stored user row has exactly that username and exactly that phone.
RowStored(file, username, phone) ==
  \E i \in DOMAIN file : RowIs(UserFields(file[i]), username, phone)

\* C19: authenticate(username, phone) is true if and only if some stored user
\* row has exactly that username and that phone; so after register(u, p) with
\* a valid phone of 10 to 15 digits authenticate(u, p) is true and
\* authenticate(u, q) is false for q different from p.
C19_AuthenticateIffRowStored ==
  call.op = "validate_user_credentials"
     => (call.ok <=> RowStored(users_file, call.username, call.phone))

----------------------------------------------------------------------------
(* validation.c: validate_admin_password; file_operations.c:               *)
(* change_admin_password; gui_management.c: the admin handlers             *)

\* stored_password[strcspn(stored_password, "\n")] = 0
CutAtNewline(s) == SubSeq(s, 1, strcspn(s, {"\n"}))

\* The password validate_admin_password compares with: the file the program
\* writes always holds one line.
StoredPassword(file) == CutAtNewline(fgets(file.lines[1], MAX_LEN))

\* validate_admin_password: [ok, file]
validate_admin_password(file, password) ==
  IF ~file.exists
  THEN [ok |-> strcmp(password, admin123) = 0, file |-> AdminFile(admin123)]
  ELSE [ok |-> strcmp(password, StoredPassword(file)) = 0, file |-> file]

change_admin_password(new_password) == AdminFile(new_password)

\* After validate_admin_password returned r.
AdminChecked(r, password) ==
  /\ admin_file' = r.file
  /\ is_admin_logged_in' = (r.ok \/ is_admin_logged_in)
  /\ status_label' = [msg |-> IF r.ok THEN "admin_ok" ELSE "bad_admin_password"]
  /\ UNCHANGED in_flight
  /\ screen' = IF r.ok THEN "admin_menu" ELSE screen
  /\ call' = [op |-> "admin_login", password |-> password, ok |-> r.ok]
  /\ UNCHANGED <<rooms_file, bookings_file, users_file, profiles_file,
                 current_user, clock>>

on_admin_login_submit_clicked(password) ==
  AdminChecked(validate_admin_password(admin_file, password), password)

\* The change screen is part of the admin menu, shown after an admin login.
on_admin_change_password_clicked(new_password, confirm_password) ==
  /\ is_admin_logged_in
  /\ UNCHANGED in_flight
  /\ UNCHANGED screen
  /\ call' = [op |-> "admin_change", new_password |-> new_password,
              confirm_password |-> confirm_password]
  /\ IF strlen(new_password) < 6
     THEN status_label' = [msg |-> "password_short"] /\ UNCHANGED admin_file
     ELSE IF strcmp(new_password, confirm_password) # 0
     THEN status_label' = [msg |-> "password_mismatch"] /\ UNCHANGED admin_file
     ELSE /\ admin_file' = change_admin_password(new_password)
          /\ status_label' = [msg |-> "password_changed"]
  /\ UNCHANGED <<rooms_file, bookings_file, users_file, profiles_file,
                 current_user, is_admin_logged_in, clock>>

\* The password file is removed from outside the program: the case in which
\* fopen(ADMIN_PASS_FILE, "r") of validate_admin_password returns NULL.
AdminFileRemoved ==
  /\ admin_file.exists
  /\ admin_file' = [exists |-> FALSE, lines |-> <<>>]
  /\ UNCHANGED in_flight
  /\ UNCHANGED screen
  /\ call' = OtherCall
  /\ UNCHANGED <<rooms_file, bookings_file, users_file, profiles_file,
                 current_user, is_admin_logged_in, clock, status_label>>

hunter22 == <<"h", "u", "n", "t", "e", "r", "2", "2">>

\* A password of MAX_LEN characters, one more than stored_password holds.
LongPassword == [i \in 1..MAX_LEN |-> "a"]

\* Passwords typed: the default, a new one, a short one, one of MAX_LEN
\* characters and its first MAX_LEN - 1 characters.
PasswordInputs ==
  {admin123, hunter22, <<"a", "b", "c">>, LongPassword,
   SubSeq(LongPassword, 1, MAX_LEN - 1)}

AdminLogin == \E password \in PasswordInputs : on_admin_login_submit_clicked(password)

ChangePassword ==
  \E new_password \in PasswordInputs, confirm_password \in PasswordInputs :
     on_admin_change_password_clicked(new_password, confirm_password)

AdminLogout == is_admin_logged_in /\ on_back_to_main_clicked

NextAdmin == AdminLogin \/ ChangePassword \/ AdminLogout \/ AdminFileRemoved

SpecAdmin == Init /\ [][NextAdmin]_vars

----------------------------------------------------------------------------
(* C20 *)

\* The admin secret in force before a step: the text of the stored line, or the
\* default when nothing is stored.
SecretInForce ==
  IF admin_file.exists
  THEN SubSeq(admin_file.lines[1], 1, Len(admin_file.lines[1]) - 1)
  ELSE admin123

AdminLoginAsStated ==
  call'.op = "admin_login" =>
     /\ call'.ok <=> (call'.password = SecretInForce)
     /\ ~admin_file.exists => admin_file' = AdminFile(admin123)

\* C20: an admin login is accepted if and only if the password typed is the
\* secret in force: the default admin123 when no secret is stored (the login
\* then stores it), and otherwise the password p of the last accepted change
\* (at least 6 characters, confirmation equal), so no other password, the
\* previous one included, is accepted.
C20_AdminPasswordInForce == [][AdminLoginAsStated]_vars

----------------------------------------------------------------------------
(* Profile saves of two customers, with rows longer than the line buffer     *)

\* A text of n letters a.
Letters(n) == [i \in 1..n |-> "a"]

\* An address of 395 characters: with it a profile row has more characters
\* than char line[MAX_LEN * 4] holds.
LongAddress == Letters(MAX_LEN * 4 - 5)

\* Profiles typed into the dialog: two short ones and one with the long
\* address. The e-mail entry is left empty in all three.
ProfileTexts ==
  ProfileInputs
    \cup { [NoProfile EXCEPT !.full_name = <<"B", "o">>, !.id_number = <<"8">>],
           [NoProfile EXCEPT !.full_name = <<"B", "o">>, !.id_number = <<"7">>,
                             !.address = LongAddress,
                             !.phone = <<"5", "5", "5", "1", "2", "3", "4", "5", "6", "7">>] }

\* Most lines the model lets the profile file grow to.
MaxProfiles == 4

SignUpAny ==
  \E u \in UserNames, p \in PhoneInputs, c \in PhoneInputs :
     on_sign_up_submit_clicked(u, p, c, FALSE)

LoginAny ==
  \E u \in UserNames, p \in PhoneInputs :
     on_customer_login_submit_clicked(u, p, FALSE)

SaveProfileAny ==
  \E p \in ProfileTexts :
     /\ update_user_profile_dialog(p)
     /\ Len(profiles_file') <= MaxProfiles

NextProfiles == SignUpAny \/ LoginAny \/ Logout \/ SaveProfileAny

SpecProfiles == Init /\ [][NextProfiles]_vars

----------------------------------------------------------------------------
(* C21 *)

\* The username of a stored profile row: the text before its first ':'.
RowName(line) == SubSeq(line, 1, strcspn(line, {":"}))

HasRow(file, username) == \E i \in DOMAIN file : RowName(file[i]) = username

OneRowPerName(file) ==
  \A i, j \in DOMAIN file : RowName(file[i]) = RowName(file[j]) => i = j

\* after is before with username's row replaced in place, or with a row of
\* username appended when before has none.
Upserted(before, after, username) ==
  IF HasRow(before, username)
  THEN /\ Len(after) = Len(before)
       /\ \A i \in DOMAIN before :
             IF RowName(before[i]) = username
             THEN RowName(after[i]) = username
             ELSE after[i] = before[i]
  ELSE /\ Len(after) = Len(before) + 1
       /\ SubSeq(after, 1, Len(before)) = before
       /\ RowName(after[Len(after)]) = username

SaveAsStated ==
  profiles_file' # profiles_file =>
     /\ Upserted(profiles_file, profiles_file', current_user)
     /\ OneRowPerName(profiles_file')

\* C21: every step that changes the profile rows is an upsert for the user
\* logged in: that user's row is replaced in place, or appended when there is
\* none, every other row and the order of rows stay as they were, and the file
\* keeps at most one row per username.
C21_SaveIsUpsert == [][SaveAsStated]_vars

----------------------------------------------------------------------------
(* gui_management.c: load_rooms_into_store, on_filter_rooms_clicked,        *)
(* show_room_browse                                                          *)

\* atof: the leading number of the text in hundredths, 0 when there is none.
AtofOf(n) == IF n.ok THEN n.val ELSE 0
atof(s) == AtofOf(ScanNumber(s, 1, TRUE))

\* The filter tests of the reading loop: a room that fails one is skipped.
\* NoFilter stands for the NULL filter of show_room_browse.
NoFilter == [min_price |-> 0, max_price |-> 0, type |-> Empty, facilities |-> Empty]

PassesFilter(room, filter) ==
  /\ ~(filter.min_price > 0 /\ room.price < filter.min_price)
  /\ ~(filter.max_price > 0 /\ room.price > filter.max_price)
  /\ ~(strlen(filter.type) > 0 /\ strcmp(room.type, filter.type) # 0)
  /\ ~(strlen(filter.facilities) > 0 /\ ~strstr(room.facilities, filter.facilities))

\* The rooms[] array after the reading loop.
RECURSIVE RoomsKept(_, _)
RoomsKeptAt(room, rest, filter) ==
  IF PassesFilter(room, filter) THEN <<room>> \o RoomsKept(rest, filter)
  ELSE RoomsKept(rest, filter)

RoomsKept(file, filter) ==
  IF file = <<>> THEN <<>>
  ELSE RoomsKeptAt(RoomOf(ScanRoom(RoomUninit, Head(file))), Tail(file), filter)

\* compare_rooms_by_price
compare_rooms_by_price(a, b) ==
  IF a.price < b.price THEN -1 ELSE IF a.price > b.price THEN 1 ELSE 0

\* qsort(rooms, room_count, sizeof(Room), compare_rooms_by_price): the orders
\* qsort may leave the array in. The order of elements that compare equal is
\* unspecified.
RECURSIVE SortedOrders(_, _)
SortedOrders(rooms, left) ==
  IF left = {} THEN {<<>>}
  ELSE UNION { { <<rooms[i]>> \o rest : rest \in SortedOrders(rooms, left \ {i}) } :
                 i \in { k \in left : \A j \in left :
                            compare_rooms_by_price(rooms[k], rooms[j]) <= 0 } }

qsort(rooms) == SortedOrders(rooms, DOMAIN rooms)

\* load_rooms_into_store: the rows the room list may show.
load_rooms_into_store(file, filter) == qsort(RoomsKept(file, filter))

\* After load_rooms_into_store filled the list with rows.
RoomsShown(filter, rows) ==
  /\ UNCHANGED in_flight
  /\ call' = [op |-> "list_rooms", filter |-> filter, rows |-> rows]
  /\ UNCHANGED <<rooms_file, bookings_file, users_file, profiles_file, admin_file,
                 current_user, is_admin_logged_in, clock, status_label>>

\* on_filter_rooms_clicked: the room screen belongs to the customer menu.
on_filter_rooms_clicked(min_price_str, max_price_str, type, facilities) ==
  /\ current_user # Empty
  /\ UNCHANGED screen
  /\ \E rows \in load_rooms_into_store(rooms_file,
                    [min_price |-> atof(min_price_str), max_price |-> atof(max_price_str),
                     type |-> type, facilities |-> facilities]) :
        RoomsShown([min_price |-> atof(min_price_str), max_price |-> atof(max_price_str),
                    type |-> type, facilities |-> facilities], rows)

\* on_browse_rooms_clicked: show_room_browse lists the rooms without a filter.
on_browse_rooms_clicked ==
  /\ screen' = "room_browse"
  /\ \E rows \in load_rooms_into_store(rooms_file, NoFilter) : RoomsShown(NoFilter, rows)

\* Texts typed into the two price entries.
MinPriceTexts == {Empty, <<"1", "2", "0">>, <<"-", "5">>}
MaxPriceTexts == {Empty, <<"1", "5", "0", ".", "5">>, <<"-", "5">>, <<"x">>}

Balcony == <<"B", "a", "l", "c", "o", "n", "y">>

\* Texts typed into the facilities entry.
FacilityTexts == {Empty, Balcony, <<"P", "o", "o", "l">>}

\* The entries of the type combo box.
TypeChoices == {Empty, Single, Double, Suite}

FilterRooms ==
  \E mn \in MinPriceTexts, mx \in MaxPriceTexts, t \in TypeChoices, f \in FacilityTexts :
     on_filter_rooms_clicked(mn, mx, t, f)

BrowseRooms == current_user # Empty /\ on_browse_rooms_clicked

NextRooms == SignUp \/ Login \/ Logout \/ FilterRooms \/ BrowseRooms

SpecRooms == Init /\ [][NextRooms]_vars

----------------------------------------------------------------------------
(* C22 *)

\* The price a room line states, in hundredths.
StatedPrice(line) == CentsOf(RoomFields(line).price)

\* A room line satisfies every active predicate of the filter.
Satisfies(f, filter) ==
  /\ filter.min_price # 0 => CentsOf(f.price) >= filter.min_price
  /\ filter.max_price # 0 => CentsOf(f.price) <= filter.max_price
  /\ filter.type # Empty => f.type = filter.type
  /\ filter.facilities # Empty => strstr(f.facilities, filter.facilities)

Selected(file, filter) ==
  {i \in DOMAIN file : Satisfies(RoomFields(file[i]), filter)}

\* The place of line i among the selected lines: after every cheaper one and
\* after every equally priced one that comes earlier in the file.
PlaceOf(file, sel, i) ==
  1 + Cardinality({j \in sel : \/ StatedPrice(file[j]) < StatedPrice(file[i])
                               \/ /\ StatedPrice(file[j]) = StatedPrice(file[i])
                                  /\ j < i})

ListedAsStated(file, sel, rows) ==
  /\ Len(rows) = Cardinality(sel)
  /\ \A i \in sel :
        FmtD(rows[PlaceOf(file, sel, i)].room_number) = RoomFields(file[i]).room_number

\* C22: the room list shows exactly the rooms that satisfy every active filter
\* predicate (a price bound is active when nonzero, type and facilities when
\* nonempty), by ascending price, equally priced rooms in file order.
C22_ListingFilteredAndSorted ==
  call.op = "list_rooms" =>
     ListedAsStated(rooms_file, Selected(rooms_file, call.filter), call.rows)

----------------------------------------------------------------------------
(* gui_management.c: load_all_bookings_into_store and the two booking lists  *)

\* atoi: the leading integer of the text, 0 when there is none.
atoi(s) == AtofOf(ScanNumber(s, 1, FALSE))

\* NoBookingFilter stands for the NULL filter of show_admin_bookings.
NoBookingFilter ==
  [booking_id |-> 0, username |-> Empty, start_date |-> Empty, end_date |-> Empty]

\* The filter tests of load_all_bookings_into_store on the reader's variables
\* v after a line; booking_date_only is strncpy(.., booking_date, 10).
PassesBookingFilter(v, filter) ==
  /\ ~(filter.booking_id # 0 /\ v[8] # filter.booking_id)
  /\ ~(strlen(filter.username) > 0 /\ ~strstr(v[1], filter.username))
  /\ ~(strlen(filter.start_date) > 0 /\ strcmp(strncpy(v[3], 10), filter.start_date) < 0)
  /\ ~(strlen(filter.end_date) > 0 /\ strcmp(strncpy(v[3], 10), filter.end_date) > 0)

AllRows(kept) ==
  [i \in DOMAIN kept |->
     [booking_id |-> kept[i][8], room_number |-> kept[i][2], username |-> kept[i][1],
      booking_date |-> kept[i][3], check_in_date |-> kept[i][4],
      check_out_date |-> kept[i][5], total_price |-> kept[i][6], status |-> kept[i][7]]]

\* load_all_bookings_into_store: the rows appended to the list store.
\* g: what the loader's status and booking_id held before the first line.
load_all_bookings_into_store(file, filter, g) ==
  AllRows(SelectSeq(ReadBookings(file, BookingUninit(g)),
                    LAMBDA v : PassesBookingFilter(v, filter)))

BookingsShown(op, filter, rows) ==
  /\ UNCHANGED in_flight
  /\ call' = [op |-> op, filter |-> filter, rows |-> rows]
  /\ UNCHANGED <<rooms_file, bookings_file, users_file, profiles_file, admin_file,
                 current_user, is_admin_logged_in, clock, status_label>>

\* show_booking_manage with no user logged in: the list is left as it was.
ListKept ==
  /\ UNCHANGED in_flight
  /\ call' = OtherCall
  /\ UNCHANGED <<rooms_file, bookings_file, users_file, profiles_file, admin_file,
                 current_user, is_admin_logged_in, clock, status_label>>

\* on_view_bookings_clicked: show_booking_manage lists the bookings of the
\* user logged in.
on_view_bookings_clicked(g) ==
  /\ screen' = "booking_manage"
  /\ IF strlen(current_user) > 0
     THEN BookingsShown("list_user_bookings",
                        [NoBookingFilter EXCEPT !.username = current_user],
                        load_user_bookings_into_store(bookings_file, current_user, g))
     ELSE ListKept

FilterShown(filter, g) ==
  BookingsShown("list_all_bookings", filter,
                load_all_bookings_into_store(bookings_file, filter, g))

\* on_admin_filter_bookings_clicked: the admin screens are entered from the
\* main screen, where no customer is logged in.
on_admin_filter_bookings_clicked(booking_id_str, username, start_date, end_date, g) ==
  /\ current_user = Empty
  /\ UNCHANGED screen
  /\ FilterShown([booking_id |-> atoi(booking_id_str), username |-> username,
                  start_date |-> start_date, end_date |-> end_date], g)

\* show_admin_bookings
show_admin_bookings(g) ==
  /\ current_user = Empty
  /\ screen' = "admin_bookings"
  /\ FilterShown(NoBookingFilter, g)

\* The four texts typed into the admin filter: the id of the bookings made at
\* Epoch0 alone, a part of a username alone, each date bound alone, and a
\* part of no username together with both bounds.
FilterInputs ==
  { <<FmtD(GenerateBookingId(Epoch0)), Empty, Empty, Empty>>,
    <<Empty, <<"m", "y">>, Empty, Empty>>,
    <<Empty, Empty, Jul02, Empty>>,
    <<Empty, Empty, Empty, Jun01>>,
    <<Empty, <<"z">>, Jun01, Jul02>> }

ViewBookings ==
  current_user # Empty /\ \E g \in ReaderGarbageNow : on_view_bookings_clicked(g)

FilterBookings ==
  \E f \in FilterInputs, g \in ReaderGarbageNow :
     on_admin_filter_bookings_clicked(f[1], f[2], f[3], f[4], g)

AllBookings == \E g \in ReaderGarbageNow : show_admin_bookings(g)

NextBookings ==
  SignUp \/ Login \/ Logout \/ SaveProfile \/ Book \/ ViewBookings \/ FilterBookings \/ AllBookings

SpecBookings == Init /\ [][NextBookings]_vars

----------------------------------------------------------------------------
(* C23 *)

\* A stored record matches the filter: the id when one is given, the username
\* part when one is given, and each date bound that is given.
MatchesFilter(rec, filter) ==
  /\ filter.booking_id # 0 => rec.booking_id = FmtD(filter.booking_id)
  /\ filter.username # Empty => strstr(rec.username, filter.username)
  /\ filter.start_date # Empty =>
        strcmp(SubSeq(rec.booking_date, 1, 10), filter.start_date) >= 0
  /\ filter.end_date # Empty =>
        strcmp(SubSeq(rec.booking_date, 1, 10), filter.end_date) <= 0

\* The row shows the stored record.
ShowsRecord(row, rec) ==
  /\ FmtD(row.booking_id) = rec.booking_id
  /\ FmtD(row.room_number) = rec.room_number
  /\ row.check_in_date = rec.check_in_date
  /\ row.check_out_date = rec.check_out_date
  /\ FmtF2(row.total_price) = rec.total_price
  /\ row.status = rec.status

\* rows show the records recs one by one.
ShowsAll(rows, recs) ==
  /\ Len(rows) = Len(recs)
  /\ \A i \in DOMAIN recs : ShowsRecord(rows[i], RecordFields(recs[i]))

\* C23: the list of a user's bookings shows, in file order, exactly the
\* records whose username is that user; the admin list shows, in file order,
\* exactly the records that match the booking id when it is nonzero, contain
\* the username text when it is nonempty, and whose booking-date portion lies
\* within the inclusive bounds that are nonempty.
C23_ListsShowMatchingRecords ==
  /\ call.op = "list_user_bookings" =>
        ShowsAll(call.rows,
                 SelectSeq(bookings_file,
                           LAMBDA l : RecordFields(l).username = call.filter.username))
  /\ call.op = "list_all_bookings" =>
        ShowsAll(call.rows,
                 SelectSeq(bookings_file,
                           LAMBDA l : MatchesFilter(RecordFields(l), call.filter)))

----------------------------------------------------------------------------
(* The validators applied to texts, and sign-up with texts they reject       *)

abc_123 == <<"a", "b", "c", "_", "1", "2", "3">>

\* Usernames typed: too short, starting with a digit or an underscore, with a
\* ':', a space or a '-', of 20 and of 21 characters, and valid ones.
NameTexts ==
  { Empty, <<"a", "b">>, <<"2", "a", "b", "c">>, abc_123, amy, <<"A", "b", "9">>,
    <<"_", "a", "b">>, <<"a", ":", "b">>, <<"a", "b", " ", "c">>, <<"a", "-", "b">>,
    <<"a", "b", ":">>, Letters(19) \o <<"_">>, Letters(21), <<"Z", "_", "_">> }

Digits(n) == [i \in 1..n |-> DigitChars[(i % 10) + 1]]

\* Phones typed: of 9, 10, 15 and 16 digits, and with a letter, a '-' or a ':'.
PhoneTexts ==
  { Empty, Digits(9), Digits(10), Digits(15), Digits(16),
    SubSeq(Digits(10), 1, 9) \o <<"x">>, <<"-">> \o Digits(10),
    SubSeq(Digits(10), 1, 5) \o <<":">> \o Digits(5) }

ValidateUsername ==
  \E s \in NameTexts :
     /\ UNCHANGED in_flight
     /\ UNCHANGED screen
     /\ call' = [op |-> "is_valid_username", input |-> s, ok |-> is_valid_username(s)]
     /\ UNCHANGED <<rooms_file, bookings_file, users_file, profiles_file, admin_file,
                    current_user, is_admin_logged_in, clock, status_label>>

ValidatePhone ==
  \E s \in PhoneTexts :
     /\ UNCHANGED in_flight
     /\ UNCHANGED screen
     /\ call' = [op |-> "is_valid_phone", input |-> s, ok |-> is_valid_phone(s)]
     /\ UNCHANGED <<rooms_file, bookings_file, users_file, profiles_file, admin_file,
                    current_user, is_admin_logged_in, clock, status_label>>

\* Sign-up with valid and invalid usernames and phones, and with a
\* confirmation that differs.
SignUpTexts ==
  \E u \in {amy, abc_123, <<"a", ":", "b">>, <<"2", "a", "b", "c">>},
     p \in {Digits(10), Digits(9), SubSeq(Digits(10), 1, 9) \o <<"x">>},
     c \in {Digits(10), Digits(9)} :
     /\ on_sign_up_submit_clicked(u, p, c, FALSE)
     /\ Len(users_file') <= MaxUsers

NextValidate == ValidateUsername \/ ValidatePhone \/ SignUpTexts

SpecValidate == Init /\ [][NextValidate]_vars

----------------------------------------------------------------------------
(* C24 *)

UpperCase ==
  {"A", "B", "C", "D", "E", "F", "G", "H", "I", "J", "K", "L", "M",
   "N", "O", "P", "Q", "R", "S", "T", "U", "V", "W", "X", "Y", "Z"}

LowerCase ==
  {"a", "b", "c", "d", "e", "f", "g", "h", "i", "j", "k", "l", "m",
   "n", "o", "p", "q", "r", "s", "t", "u", "v", "w", "x", "y", "z"}

DecimalDigits == {"0", "1", "2", "3", "4", "5", "6", "7", "8", "9"}

StatedValidName(s) ==
  /\ Len(s) >= 3 /\ Len(s) <= 20
  /\ s[1] \in UpperCase \cup LowerCase
  /\ \A i \in DOMAIN s : s[i] \in UpperCase \cup LowerCase \cup DecimalDigits \cup {"_"}

\* The sign-up handler passed both validators and called register_user.
SignUpAccepted ==
  call.op = "sign_up" /\ status_label.msg \in {"registered", "username_taken"}

\* C24: is_valid_username accepts a text if and only if it has 3 to 20
\* characters, starts with a letter and holds only letters, digits and
\* underscores ("ab" and "2abc" are rejected, "abc_123" is accepted); a
\* username that sign-up accepted holds no ':'.
C24_ValidUsername ==
  /\ call.op = "is_valid_username" => (call.ok <=> StatedValidName(call.input))
  /\ call.op = "is_valid_username" /\ call.input \in {<<"a", "b">>, <<"2", "a", "b", "c">>}
        => ~call.ok
  /\ call.op = "is_valid_username" /\ call.input = abc_123 => call.ok
  /\ SignUpAccepted => \A i \in DOMAIN call.username : call.username[i] # ":"

C24_Witness ==
  \/ call.op = "is_valid_username" /\ call.input = abc_123 /\ call.ok
  \/ SignUpAccepted /\ call.username = abc_123 /\ status_label.msg = "registered"

----------------------------------------------------------------------------
(* C25 *)

StatedValidPhone(s) ==
  /\ Len(s) >= 10 /\ Len(s) <= 15
  /\ \A i \in DOMAIN s : s[i] \in DecimalDigits

PhoneCheckedAsStated ==
  call'.op = "is_valid_phone" => (call'.ok <=> StatedValidPhone(call'.input))

StoredAsStated ==
  users_file' # users_file =>
     /\ call'.op = "sign_up"
     /\ StatedValidName(call'.username)
     /\ StatedValidPhone(call'.phone)
     /\ call'.confirm_phone = call'.phone
     /\ users_file' = Append(users_file, call'.username \o <<":">> \o call'.phone \o <<"\n">>)

\* C25: is_valid_phone accepts a text if and only if it has 10 to 15
\* characters, all decimal digits; a step stores a user only when it is a
\* sign-up whose username and phone the validators accept and whose
\* confirmation equals the phone.
C25_ValidPhoneAndSignUp == [][PhoneCheckedAsStated /\ StoredAsStated]_vars

C25_Witness ==
  /\ call.op = "sign_up" /\ status_label.msg = "registered"
  /\ users_file # <<>>
  /\ call.confirm_phone = call.phone

----------------------------------------------------------------------------
(* Cancel of a booking id that no record holds *)

\* No record of the file has the id.
NoSuchBooking(file, booking_id) ==
  \A i \in DOMAIN file : RecordFields(file[i]).booking_id # booking_id

\* C26: a Cancel whose booking_id matches no stored booking record leaves the
\* bookings and the rooms unchanged.
C26_CancelUnknownIsNoOp ==
  [][(CancelStep /\ NoSuchBooking(bookings_file, FmtD(call'.booking_id)))
       => bookings_file' = bookings_file /\ rooms_file' = rooms_file]_vars

----------------------------------------------------------------------------
(* The start of the program on the files it finds in data/                   *)

\* A file that does not exist: fopen(path, "r") returns NULL.
NoFile == [exists |-> FALSE, lines |-> <<>>]

FileOf(lines) == [exists |-> TRUE, lines |-> lines]

CreateIfAbsent_Always(file, lines) == FileOf(lines)

\* One block of initialize_files: the file is opened for reading, and only when
\* that fails it is opened for writing and the default lines are printed.
CreateIfAbsent(file, lines) == IF file.exists THEN file ELSE FileOf(lines)

\* initialize_files on the five files as found: each is, as admin_file, whether
\* it exists and its lines.
initialize_files_on(disk) ==
  [rooms    |-> CreateIfAbsent(disk.rooms, initialize_files.rooms),
   bookings |-> CreateIfAbsent(disk.bookings, initialize_files.bookings),
   users    |-> CreateIfAbsent(disk.users, initialize_files.users),
   profiles |-> CreateIfAbsent(disk.profiles, initialize_files.profiles),
   admin    |-> CreateIfAbsent(disk.admin, initialize_files.admin.lines)]

\* The five files as they are.
Disk ==
  [rooms |-> rooms_file, bookings |-> bookings_file, users |-> users_file,
   profiles |-> profiles_file, admin |-> admin_file]

Started(before, after) ==
  /\ rooms_file' = after.rooms
  /\ bookings_file' = after.bookings
  /\ users_file' = after.users
  /\ profiles_file' = after.profiles
  /\ admin_file' = after.admin
  /\ UNCHANGED in_flight
  /\ screen' = "main_menu"
  /\ call' = [op |-> "initialize_files", before |-> before]
  /\ current_user' = Empty
  /\ is_admin_logged_in' = FALSE
  /\ status_label' = [msg |-> "welcome"]
  /\ UNCHANGED clock

\* A run of the program up to its main window: main calls initialize_files and
\* then shows the main menu, nobody logged in.
main == Started(Disk, initialize_files_on(Disk))

\* A stored booking, of room 101.
OneBooking ==
  BookingLine([username |-> amy, room_number |-> 101,
               booking_date |-> <<"2", "0", "2", "5", "-", "0", "6", "-", "0", "1">>,
               check_in_date |-> <<"2", "0", "2", "5", "-", "0", "6", "-", "1", "0">>,
               check_out_date |-> <<"2", "0", "2", "5", "-", "0", "6", "-", "1", "2">>,
               total_price |-> 20000, status |-> active, booking_id |-> 772330])

\* What data/ can hold of each file when the program starts: nothing, what a
\* first run left, or what later runs made of it.
RoomsFound ==
  {NoFile, FileOf(<<>>), FileOf(initialize_files.rooms),
   FileOf(RewriteRooms(initialize_files.rooms, 101, Booked))}

BookingsFound == {NoFile, FileOf(<<>>), FileOf(<<OneBooking>>)}

UsersFound ==
  {NoFile, FileOf(<<>>),
   FileOf(<<UserLine(amy, <<"5", "5", "5", "1", "2", "3", "4", "5", "6", "7">>)>>)}

ProfilesFound ==
  {NoFile, FileOf(<<>>),
   FileOf(<<ProfileLine(amy, [NoProfile EXCEPT !.full_name = Al, !.id_number = <<"7">>])>>)}

AdminFound == {NoFile, AdminFile(admin123), AdminFile(hunter22)}

\* The program is not running yet, on any of the directories above.
InitStart ==
  /\ in_flight = NoneUnderWay
  /\ screen = "none"
  /\ rooms_file \in RoomsFound
  /\ bookings_file \in BookingsFound
  /\ users_file \in UsersFound
  /\ profiles_file \in ProfilesFound
  /\ admin_file \in AdminFound
  /\ current_user = Empty
  /\ clock = Epoch0
  /\ status_label = [msg |-> "welcome"]
  /\ call = [op |-> "none"]
  /\ is_admin_logged_in = FALSE

NextStart == main

SpecStart == InitStart /\ [][NextStart]_vars

----------------------------------------------------------------------------
(* C27 *)

\* Five room rows, numbered 101 to 105 in this order, all Available.
FiveSeedRooms(lines) ==
  /\ Len(lines) = 5
  /\ \A i \in 1..5 :
        /\ RoomFields(lines[i]).room_number = FmtD(100 + i)
        /\ RoomFields(lines[i]).status = Available

\* A file that existed is as it was; one that did not exists now, and holds
\* what the first run is said to put there.
KeptOrCreated(before, after, seeded) ==
  IF before.exists THEN after = before ELSE after.exists /\ seeded

InitializedAsStated ==
  call'.op = "initialize_files" =>
     /\ KeptOrCreated(rooms_file, rooms_file', FiveSeedRooms(rooms_file'.lines))
     /\ KeptOrCreated(bookings_file, bookings_file', bookings_file'.lines = <<>>)
     /\ KeptOrCreated(users_file, users_file', users_file'.lines = <<>>)
     /\ KeptOrCreated(profiles_file, profiles_file', profiles_file'.lines = <<>>)
     /\ KeptOrCreated(admin_file, admin_file', admin_file'.lines = <<admin123 \o NL>>)
     /\ call.op = "initialize_files" => Disk' = Disk

\* C27: the initialization at the start of the program creates the files that
\* are absent, and only those: the rooms with the five seed rooms 101..105,
\* the admin secret admin123, the others empty; a file that exists is left as
\* it is, so a second initialization changes nothing.
C27_InitializeCreatesOnlyAbsent == [][InitializedAsStated]_vars

\* The program has started where rooms and the admin secret were absent and a
\* booking and a user were stored: the five rooms and admin123 are there, and
\* the booking and the user are as they were.
C27_Witness ==
  /\ call.op = "initialize_files"
  /\ ~call.before.rooms.exists
  /\ ~call.before.admin.exists
  /\ call.before.bookings = FileOf(<<OneBooking>>)
  /\ call.before.users.exists /\ Len(call.before.users.lines) = 1
  /\ FiveSeedRooms(rooms_file.lines)
  /\ admin_file = AdminFile(admin123)
  /\ bookings_file = call.before.bookings
  /\ users_file = call.before.users

----------------------------------------------------------------------------
(* C28 *)

\* The rooms of the stored records that have the id.
RoomsOfBooking(file, booking_id) ==
  {RecordFields(file[i]).room_number :
     i \in {j \in DOMAIN file : RecordFields(file[j]).booking_id = booking_id}}

\* A room among those given has the status, and is otherwise as it was; any
\* other room's line is as it was.
RoomSetTo(r, before, after, room_numbers, status) ==
  IF r.room_number \in room_numbers
  THEN RoomFields(after) = [r EXCEPT !.status = status]
  ELSE after = before

RoomsSetTo(room_numbers, status) ==
  /\ Len(rooms_file') = Len(rooms_file)
  /\ \A i \in DOMAIN rooms_file :
        RoomSetTo(RoomFields(rooms_file[i]), rooms_file[i], rooms_file'[i],
                  room_numbers, status)

\* The step cancels a booking that is stored.
CancelOfStored ==
  CancelStep /\ RoomsOfBooking(bookings_file, FmtD(call'.booking_id)) # {}

\* C28: after the Cancel of a stored booking of room r the status of r is
\* Available, whatever other active bookings r has; after a successful Book of
\* r it is Booked; in both no other room's record changes.
C28_StatusSetByLastOperation ==
  [][/\ CancelOfStored =>
          RoomsSetTo(RoomsOfBooking(bookings_file, FmtD(call'.booking_id)), Available)
     /\ ConfirmedBookStep => RoomsSetTo({FmtD(call'.room_number)}, Booked)]_vars

----------------------------------------------------------------------------
(* C29 *)

\* A stored record after a step: every field but the status is as it was, and
\* a canceled record is still canceled.
RecordKept(a, b) ==
  /\ b.username = a.username
  /\ b.room_number = a.room_number
  /\ b.check_in_date = a.check_in_date
  /\ b.check_out_date = a.check_out_date
  /\ b.total_price = a.total_price
  /\ b.booking_id = a.booking_id
  /\ a.status = canceled => b.status = canceled

\* C29: the booking history only grows and deletes softly: no step lowers the
\* number of records, turns a canceled record active again, or alters the
\* username, room, dates, total_price or booking_id of a stored record.
C29_HistoryAppendOnly ==
  [][/\ Len(bookings_file') >= Len(bookings_file)
     /\ \A i \in DOMAIN bookings_file :
           RecordKept(RecordFields(bookings_file[i]), RecordFields(bookings_file'[i]))]_vars

----------------------------------------------------------------------------
(* Book and Cancel runs that the process does not finish                     *)

\* A file just after fopen(path, "w"): it is cut to length 0, and what fprintf
\* prints waits in the stream's buffer until fclose.
Truncated == <<>>

\* The process ends at a point of the handler (it is killed, or the machine
\* stops) with the files as left, and is started again: the main menu, nobody
\* logged in. finished: what the handler would have stored had it run on.
Stopped(op, left, finished) ==
  /\ bookings_file' = left.bookings
  /\ rooms_file' = left.rooms
  /\ UNCHANGED in_flight
  /\ screen' = "main_menu"
  /\ call' = [op |-> op, finished |-> finished]
  /\ current_user' = Empty
  /\ is_admin_logged_in' = FALSE
  /\ status_label' = [msg |-> "welcome"]
  /\ UNCHANGED <<users_file, profiles_file, clock, admin_file>>

\* The points of on_book_room_clicked between its first write and its last.
BookStops == {"bookings_closed", "rooms_opened"}

\* The points of on_cancel_booking_clicked between its first write and its last.
CancelStops == {"bookings_opened", "bookings_closed", "rooms_opened"}

\* The files at a stop of on_book_room_clicked: the booking is appended, and
\* the rooms file is as it was or just opened for writing.
BookLeft(at, finished) ==
  [bookings |-> finished.bookings,
   rooms |-> IF at = "rooms_opened" THEN Truncated ELSE rooms_file]

BookFinished(room_number, formatted_in, formatted_out, price) ==
  [bookings |-> Append(bookings_file,
                       BookingLine(NewBooking(room_number, formatted_in,
                                              formatted_out, price))),
   rooms |-> RewriteRooms(rooms_file, room_number, Booked)]

BookStoppedAt(at, finished) == Stopped("book_stopped", BookLeft(at, finished), finished)

BookStoppedParsed(at, room_number, formatted_in, formatted_out, g) ==
  /\ BookChecks(room_number, formatted_in, formatted_out, g) = "ok"
  /\ BookStoppedAt(at,
       BookFinished(room_number, formatted_in, formatted_out,
                    RoomPriceFor(rooms_file, room_number,
                                 calculate_duration(formatted_in, formatted_out))))

\* on_book_room_clicked, its checks passed, ending at the point at.
on_book_room_clicked_until(at, room_number, checkin, checkout, g) ==
  /\ strlen(current_user) > 0
  /\ BookStoppedParsed(at, room_number, parse_date(checkin), parse_date(checkout), g)

\* The files at a stop of on_cancel_booking_clicked.
CancelLeft(at, finished) ==
  [bookings |-> IF at = "bookings_opened" THEN Truncated ELSE finished.bookings,
   rooms |-> IF at = "rooms_opened" THEN Truncated ELSE rooms_file]

CancelFinished(bookings, hit) ==
  [bookings |-> [i \in DOMAIN bookings |-> BookingLine(bookings[i])],
   rooms |-> IF hit # {}
             THEN RewriteRooms(rooms_file, bookings[Min(hit)].room_number, Available)
             ELSE rooms_file]

\* The rooms file is opened for writing only when an element has the id.
CancelStoppedFound(at, bookings, hit) ==
  /\ at = "rooms_opened" => hit # {}
  /\ Stopped("cancel_stopped", CancelLeft(at, CancelFinished(bookings, hit)),
             CancelFinished(bookings, hit))

CancelStoppedRead(at, booking_id, bookings) ==
  CancelStoppedFound(at, bookings,
                     {i \in DOMAIN bookings : bookings[i].booking_id = booking_id})

\* on_cancel_booking_clicked ending at the point at.
on_cancel_booking_clicked_until(at, booking_id, garb) ==
  /\ current_user # Empty
  /\ CancelStoppedRead(at, booking_id, CancelArray(bookings_file, booking_id, garb))

BookStopped ==
  \E at \in BookStops, g \in BookGarbage, inp \in BookInputs :
     /\ inp[1] \in ListedRooms(rooms_file)
     /\ Len(bookings_file) < MaxBookings
     /\ on_book_room_clicked_until(at, inp[1], inp[2], inp[3], g)

CancelStopped ==
  \E at \in CancelStops, id \in ShownIds(bookings_file, current_user) :
     \E garb \in CancelGarbage(bookings_file) :
        on_cancel_booking_clicked_until(at, id, garb)

NextStops == SignUp \/ Login \/ SaveProfile \/ BookStopped \/ CancelStopped

SpecStops == Init /\ [][NextStops]_vars

----------------------------------------------------------------------------
(* C30 *)

\* The stored collection is the whole old one or the whole new one.
OldOrNew(before, after, new) == after = before \/ after = new

\* The step is a Book or a Cancel that did not finish.
StoppedStep == call'.op \in {"book_stopped", "cancel_stopped"}

\* C30: the rewrites of the rooms and of the bookings by Book and Cancel are
\* atomic: when the run fails, each stored collection is the complete old one
\* or the complete new one, never an empty or a partial one.
C30_RewritesAtomic ==
  [][StoppedStep =>
       /\ OldOrNew(rooms_file, rooms_file', call'.finished.rooms)
       /\ OldOrNew(bookings_file, bookings_file', call'.finished.bookings)]_vars

----------------------------------------------------------------------------
(* C31 *)

\* C31: no two stored booking records have the same booking_id.
C31_BookingIdsDistinct ==
  \A i \in DOMAIN bookings_file : \A j \in DOMAIN bookings_file :
     RecordFields(bookings_file[i]).booking_id = RecordFields(bookings_file[j]).booking_id
       => i = j

----------------------------------------------------------------------------
(* Books with dates that no calendar holds                                   *)

\* Dates typed with a day past the end of June, and the first of July.
Jun31 == YmdText(2025, 6, 31)
Jun35 == YmdText(2025, 6, 35)
Jul01 == YmdText(2025, 7, 1)

\* The room selected and the two dates typed.
StayInputs ==
  { <<101, Jun31, Jul01>>, <<102, Jun35, Jul01>>, <<103, Jun10, Jun12>>,
    <<104, Jun31, Jul02>> }

BookStay ==
  \E g \in BookGarbage, inp \in StayInputs :
     /\ inp[1] \in ListedRooms(rooms_file)
     /\ on_book_room_clicked(inp[1], inp[2], inp[3], g)
     /\ Len(bookings_file') <= MaxBookings

NextStays == SignUp \/ Login \/ Logout \/ SaveProfile \/ BookStay

SpecStays == Init /\ [][NextStays]_vars

----------------------------------------------------------------------------
(* C32 *)

\* The amount printed is above zero.
PositiveAmount(text) == text[1] # "-" /\ CentsOf(text) > 0

\* C32: a successful Book stores a stay of at least one night, at a total
\* price above zero (every room has a price above zero), whatever dates passed
\* the format, ordering and not-in-past checks.
C32_NightsAndTotalPositive ==
  [][ConfirmedBookStep =>
       /\ status_label'.nights >= 1
       /\ PositiveAmount(RecordFields(bookings_file'[Len(bookings_file')]).total_price)]_vars

----------------------------------------------------------------------------
(* Saves while the data files cannot be written                              *)

\* change_admin_password with fopen(ADMIN_PASS_FILE, "w") giving NULL when the
\* file cannot be written: the function returns without a word.
change_admin_password_on(writable, file, new_password) ==
  IF writable THEN change_admin_password(new_password) ELSE file

PasswordChecked(writable, new_password, confirm_password) ==
  IF strlen(new_password) < 6
  THEN status_label' = [msg |-> "password_short"] /\ UNCHANGED admin_file
  ELSE IF strcmp(new_password, confirm_password) # 0
  THEN status_label' = [msg |-> "password_mismatch"] /\ UNCHANGED admin_file
  ELSE /\ admin_file' = change_admin_password_on(writable, admin_file, new_password)
       /\ status_label' = [msg |-> "password_changed"]

\* on_admin_change_password_clicked, the password file writable or not.
on_admin_change_password_clicked_on(writable, new_password, confirm_password) ==
  /\ is_admin_logged_in
  /\ UNCHANGED in_flight
  /\ UNCHANGED screen
  /\ call' = [op |-> "admin_change", writable |-> writable,
              reached |-> (strlen(new_password) >= 6
                             /\ strcmp(new_password, confirm_password) = 0)]
  /\ PasswordChecked(writable, new_password, confirm_password)
  /\ UNCHANGED <<rooms_file, bookings_file, users_file, profiles_file,
                 current_user, is_admin_logged_in, clock>>

\* save_user_profile with fopen(temp_file, "w") giving NULL: temp is not
\* tested, and fputs, fprintf and fclose are called with it. Either the
\* process dies there and is started again, or the calls pass, nothing is
\* written, and the dialog reports the save.
ProfileNotWritten(survive) ==
  /\ UNCHANGED profiles_file
  /\ current_user' = IF survive THEN current_user ELSE Empty
  /\ status_label' = [msg |-> IF survive THEN "profile_updated" ELSE "welcome"]

\* update_user_profile_dialog answered with Save, data/ writable or not.
update_user_profile_dialog_on(writable, survive, p) ==
  /\ current_user # Empty
  /\ UNCHANGED in_flight
  /\ UNCHANGED screen
  /\ call' = [op |-> "save_profile", writable |-> writable, reached |-> TRUE]
  /\ IF writable
     THEN /\ profiles_file' = save_user_profile(profiles_file, current_user, p)
          /\ status_label' = [msg |-> "profile_updated"]
          /\ UNCHANGED current_user
     ELSE ProfileNotWritten(survive)
  /\ UNCHANGED <<rooms_file, bookings_file, users_file, clock, admin_file,
                 is_admin_logged_in>>

ChangePasswordOn ==
  \E writable \in BOOLEAN :
     \E new_password \in PasswordInputs, confirm_password \in PasswordInputs :
        on_admin_change_password_clicked_on(writable, new_password, confirm_password)

SaveProfileOn ==
  \E writable \in BOOLEAN, survive \in BOOLEAN, p \in ProfileInputs :
     update_user_profile_dialog_on(writable, survive, p)

NextStorage ==
  SignUp \/ Login \/ Logout \/ SaveProfileOn \/ AdminLogin \/ ChangePasswordOn

SpecStorage == Init /\ [][NextStorage]_vars

----------------------------------------------------------------------------
(* C33 *)

\* The step is a save that came to open its file for writing and could not.
WriteFailed ==
  /\ call'.op \in {"admin_change", "save_profile"}
  /\ call'.reached
  /\ ~call'.writable

\* C33: when the file cannot be opened for writing, the change of the admin
\* password and the save of a profile write nothing and report a failure, not
\* a success.
C33_WriteFailureReported ==
  [][WriteFailed =>
       /\ admin_file' = admin_file
       /\ profiles_file' = profiles_file
       /\ status_label'.msg \notin {"password_changed", "profile_updated", "welcome"}]_vars

----------------------------------------------------------------------------
(* The profile dialog opened by two customers                                *)

\* Profiles typed into the dialog: one with every field, one with the e-mail,
\* the address and the phone left empty.
FullProfile ==
  [full_name |-> <<"B", "o">>, id_number |-> <<"8">>, email |-> <<"b", "o">>,
   address |-> <<"R", "d">>, phone |-> <<"5", "5", "5", "1", "2", "3", "4", "5", "6", "7">>]

ProfilesTyped == ProfileInputs \cup {FullProfile}

\* What the five buffers of update_user_profile_dialog hold before the call.
DialogBuffers ==
  {[full_name |-> g, id_number |-> g, email |-> g, address |-> g, phone |-> g] :
     g \in GarbageText}

\* update_user_profile_dialog up to the filling of its entries with what
\* get_user_profile left in the buffers; the dialog is then closed with Cancel.
ProfileShown(prof) ==
  /\ current_user # Empty
  /\ UNCHANGED in_flight
  /\ UNCHANGED screen
  /\ call' = [op |-> "get_user_profile", username |-> current_user,
              profile |-> [full_name |-> prof.full_name, id_number |-> prof.id_number,
                           email |-> prof.email, address |-> prof.address,
                           phone |-> prof.phone]]
  /\ UNCHANGED <<rooms_file, bookings_file, users_file, profiles_file, admin_file,
                 current_user, clock, status_label, is_admin_logged_in>>

OpenProfileDialog ==
  \E buf \in DialogBuffers :
     ProfileShown(get_user_profile(profiles_file, current_user, buf, FALSE))

SaveProfileTyped == \E p \in ProfilesTyped : update_user_profile_dialog(p)

NextProfileRead ==
  SignUpAny \/ LoginAny \/ Logout \/ SaveProfileTyped \/ OpenProfileDialog

SpecProfileRead == Init /\ [][NextProfileRead]_vars

----------------------------------------------------------------------------
(* C34 *)

\* The five values of the profile row stored for username: none when no row.
StoredProfiles(file, username) ==
  {[full_name |-> ProfileFields(file[i]).full_name,
    id_number |-> ProfileFields(file[i]).id_number,
    email |-> ProfileFields(file[i]).email,
    address |-> ProfileFields(file[i]).address,
    phone |-> SubSeq(ProfileFields(file[i]).phone, 1, Len(ProfileFields(file[i]).phone) - 1)] :
     i \in {j \in DOMAIN file : RowName(file[j]) = username}}

ReadAsStored(stored, profile) ==
  IF stored = {} THEN profile = NoProfile ELSE profile \in stored

\* C34: reading the profile of a user gives the values of that user's own row
\* as they were last saved, empty fields included, and all-empty values when
\* the user has no row; no value comes from another user's row.
C34_ProfileReadIsOwnRow ==
  call.op = "get_user_profile" =>
     ReadAsStored(StoredProfiles(profiles_file, call.username), call.profile)

----------------------------------------------------------------------------
(* Two windows of the program booking on the same data files                 *)

\* Window a has passed the checks of on_book_room_clicked for the request,
\* is_room_available last, and has not opened the booking file for appending.
BookBegun(a, request) ==
  /\ in_flight[a] = NoRequest
  /\ in_flight' = [in_flight EXCEPT ![a] = request]
  /\ UNCHANGED screen
  /\ call' = [op |-> "book_checked", actor |-> a]
  /\ UNCHANGED <<rooms_file, bookings_file, users_file, profiles_file, admin_file,
                 current_user, is_admin_logged_in, clock, status_label>>

BookBeginParsed(a, room_number, formatted_in, formatted_out, g) ==
  /\ BookChecks(room_number, formatted_in, formatted_out, g) = "ok"
  /\ BookBegun(a, [room_number |-> room_number, formatted_in |-> formatted_in,
                   formatted_out |-> formatted_out])

\* on_book_room_clicked in window a, from its start to the end of its checks.
on_book_room_clicked_checks(a, room_number, checkin, checkout, g) ==
  /\ strlen(current_user) > 0
  /\ BookBeginParsed(a, room_number, parse_date(checkin), parse_date(checkout), g)

BookEnded(a, request) ==
  /\ BookPriced(request.room_number, request.formatted_in, request.formatted_out,
                calculate_duration(request.formatted_in, request.formatted_out))
  /\ in_flight' = [in_flight EXCEPT ![a] = NoRequest]
  /\ UNCHANGED screen
  /\ call' = [op |-> "book_appended", actor |-> a, request |-> request]
  /\ UNCHANGED <<users_file, profiles_file, clock, admin_file, is_admin_logged_in>>

\* on_book_room_clicked in window a, from the price lookup to its end: the
\* record is appended and the room is set to Booked.
on_book_room_clicked_rest(a) ==
  /\ in_flight[a] # NoRequest
  /\ BookEnded(a, in_flight[a])

\* Both windows show the same customer's session.
BookBegin ==
  \E a \in Actors, g \in BookGarbage, inp \in BookInputs :
     /\ inp[1] \in ListedRooms(rooms_file)
     /\ on_book_room_clicked_checks(a, inp[1], inp[2], inp[3], g)

BookEnd ==
  \E a \in Actors :
     /\ on_book_room_clicked_rest(a)
     /\ Len(bookings_file') <= MaxBookings

NextActors == SignUp \/ Login \/ SaveProfile \/ Book \/ BookBegin \/ BookEnd

SpecActors == Init /\ [][NextActors]_vars

----------------------------------------------------------------------------
(* C35 *)

\* The state two interleaved Books leave: each passed its checks before the
\* other appended, and two active bookings of one room overlap.
BothAppended ==
  /\ call.op = "book_appended"
  /\ Len(bookings_file) = 2
  /\ ActiveOverlap(RecordFields(bookings_file[1]), RecordFields(bookings_file[2]))

\* A Book run from its checks to its end with no other between is confirmed
\* only when no stored active booking of the room overlaps its window.
AloneConfirmedOnlyIfFree(room_number, in, out) ==
  ConfirmedBookStep => ~ActiveOverlapping(bookings_file, room_number, in, out)

\* C35: two Books of one room with overlapping windows that interleave can
\* both pass the availability check and both append; run one at a time, each
\* to completion, at most one of them is confirmed.
C35_OneAtATimeAtMostOne ==
  [][BookStep =>
       AloneConfirmedOnlyIfFree(call'.room_number, parse_date(call'.checkin),
                                parse_date(call'.checkout))]_vars

----------------------------------------------------------------------------
(* Guests, strangers and customers at the Book button                        *)

eve == <<"e", "v", "e">>

\* Names typed at the login: a registered one, one nobody registered, none.
LoginNames == {amy, eve, Empty}

SignUpPhones ==
  \E p \in Phones :
     \E ovf \in PhoneOverflowNow :
        /\ on_sign_up_submit_clicked(amy, p, p, ovf)
        /\ Len(users_file') <= MaxUsers

LoginTyped ==
  \E u \in LoginNames, p \in Phones, ovf \in PhoneOverflowNow :
     on_customer_login_submit_clicked(u, p, ovf)

NextGuests == SignUpPhones \/ LoginTyped \/ Logout \/ SaveProfile \/ Book

SpecGuests == Init /\ [][NextGuests]_vars

----------------------------------------------------------------------------
(* C36 *)

\* The name is not empty and some stored user row has it.
RegisteredName(file, username) == username # Empty /\ NamePresent(file, username)

\* The records added by the step are the one a Book appends, in the name of
\* the current user.
AddedByCurrentUser ==
  Len(bookings_file') > Len(bookings_file) =>
     /\ ConfirmedBookStep
     /\ RegisteredName(users_file, current_user)
     /\ RecordFields(bookings_file'[Len(bookings_file')]).username = current_user

\* A Book pressed by a guest stores nothing.
GuestStoresNothing ==
  (call'.op = "book" /\ current_user = Empty) => bookings_file' = bookings_file

\* C36: the username of every booking record is not empty and is that of a
\* registered user: a booking is created only while a user who logged in with
\* a stored username and phone is the current user, and never by a guest.
C36_BookingsOfRegisteredUsers ==
  [][/\ AddedByCurrentUser
     /\ GuestStoresNothing
     /\ \A i \in DOMAIN bookings_file' :
           RegisteredName(users_file', RecordFields(bookings_file'[i]).username)]_vars

\* A guest has just pressed Book and was told to log in, after a customer's
\* booking was stored.
C36_Witness ==
  /\ call.op = "book"
  /\ call.user = Empty
  /\ status_label.msg = "login_first"
  /\ Len(bookings_file) >= 1
  /\ RecordFields(bookings_file[1]).username = amy

----------------------------------------------------------------------------
(* The screens: which handler each button of each screen calls *)

\* gtk_stack_set_visible_child_name(stack, name) and nothing else.
ScreenShown(name) ==
  /\ screen' = name
  /\ UNCHANGED in_flight
  /\ call' = [op |-> "show", from |-> screen]
  /\ UNCHANGED <<rooms_file, bookings_file, users_file, profiles_file, admin_file,
                 current_user, is_admin_logged_in, clock, status_label>>

show_customer_login == ScreenShown("customer_login")

show_customer_menu == ScreenShown("customer_menu")

show_admin_login == ScreenShown("admin_login")

show_admin_menu == ScreenShown("admin_menu")

show_admin_change_password_screen == ScreenShown("admin_change_password")

on_sign_up_clicked == ScreenShown("customer_signup")

\* show_receipt_history: the text view is filled from the bookings file, which
\* is left as it is.
show_receipt_history == ScreenShown("receipt_history")

\* The main menu: Customer Login, Admin Login, Browse Rooms.
MainToCustomerLogin == screen = "main_menu" /\ show_customer_login

MainToAdminLogin == screen = "main_menu" /\ show_admin_login

MainToRooms == screen = "main_menu" /\ on_browse_rooms_clicked

\* The customer login screen: Back, Login, Sign Up.
LoginBack == screen = "customer_login" /\ on_back_to_main_clicked

LoginSubmit == screen = "customer_login" /\ LoginTyped

LoginToSignUp == screen = "customer_login" /\ on_sign_up_clicked

\* The sign-up screen: Back to Login, Sign Up.
SignUpBack == screen = "customer_signup" /\ show_customer_login

SignUpSubmit == screen = "customer_signup" /\ SignUpPhones

\* The customer menu: Logout, Manage Profile, View/Book Rooms, View Bookings,
\* Receipt History.
MenuLogout == screen = "customer_menu" /\ on_back_to_main_clicked

MenuProfile == screen = "customer_menu" /\ SaveProfile

MenuRooms == screen = "customer_menu" /\ on_browse_rooms_clicked

MenuBookings ==
  screen = "customer_menu" /\ \E g \in ReaderGarbageNow : on_view_bookings_clicked(g)

MenuReceipts == screen = "customer_menu" /\ show_receipt_history

\* The room screen: its Back button is wired to on_back_to_main_clicked.
RoomsBack == screen = "room_browse" /\ on_back_to_main_clicked

\* The booking and receipt screens: Back to Menu.
BookingsBack == screen = "booking_manage" /\ show_customer_menu

ReceiptsBack == screen = "receipt_history" /\ show_customer_menu

\* The admin login screen: Back, Login.
AdminLoginBack == screen = "admin_login" /\ on_back_to_main_clicked

AdminLoginSubmit == screen = "admin_login" /\ AdminLogin

\* The admin menu: Logout, View All Bookings, View Revenue Reports, Change
\* Password.  The revenue button is wired to on_admin_view_revenue_clicked,
\* which reads the date entry of the revenue screen; nothing shows that
\* screen, so the entry holds the empty text it was created with.
AdminMenuLogout == screen = "admin_menu" /\ on_back_to_main_clicked

AdminMenuBookings == screen = "admin_menu" /\ AllBookings

AdminMenuRevenue ==
  /\ screen = "admin_menu"
  /\ \E g1 \in ReaderGarbageNow, g2 \in ReaderGarbageNow :
        on_admin_view_revenue_clicked(Empty, g1, g2)

AdminMenuPassword == screen = "admin_menu" /\ show_admin_change_password_screen

\* The admin bookings and password screens: Back to Admin Menu; Change Password.
AdminBookingsBack == screen = "admin_bookings" /\ show_admin_menu

PasswordBack == screen = "admin_change_password" /\ show_admin_menu

PasswordSubmit == screen = "admin_change_password" /\ ChangePassword

NextNav ==
  \/ MainToCustomerLogin \/ MainToAdminLogin \/ MainToRooms
  \/ LoginBack \/ LoginSubmit \/ LoginToSignUp
  \/ SignUpBack \/ SignUpSubmit
  \/ MenuLogout \/ MenuProfile \/ MenuRooms \/ MenuBookings \/ MenuReceipts
  \/ RoomsBack \/ BookingsBack \/ ReceiptsBack
  \/ AdminLoginBack \/ AdminLoginSubmit
  \/ AdminMenuLogout \/ AdminMenuBookings \/ AdminMenuRevenue \/ AdminMenuPassword
  \/ AdminBookingsBack \/ PasswordBack \/ PasswordSubmit

SpecNav == Init /\ [][NextNav]_vars

----------------------------------------------------------------------------
(* C37 *)

AdminScreens == {"admin_menu", "admin_bookings", "admin_change_password"}

CustomerScreens == {"customer_menu", "booking_manage", "receipt_history"}

\* C37: an admin screen is shown only while is_admin_logged_in is true, the
\* customer menu, booking-management and receipt-history screens only while
\* current_user is not empty, and is_admin_logged_in and a non-empty
\* current_user never hold together.
C37_ScreensMatchLogin ==
  /\ screen \in AdminScreens => is_admin_logged_in
  /\ screen \in CustomerScreens => current_user # Empty
  /\ ~(is_admin_logged_in /\ current_user # Empty)

----------------------------------------------------------------------------
(* C39 *)

\* The step taken by the View Revenue Reports button of the admin menu.
RevenueChosen == screen = "admin_menu" /\ call'.op = "revenue"

\* No step shows the revenue screen, the only place where the date entry can
\* be typed into.
RevenueScreenNeverShown == screen # "admin_revenue"

\* C39: choosing View Revenue Reports on the admin menu leads to the revenue
\* report screen, where the date is entered for which the revenues are then
\* computed.
C39_RevenueButtonShowsScreen ==
  [][RevenueChosen => screen' = "admin_revenue"]_vars

----------------------------------------------------------------------------
(* Cancel of a row of the list of the user's bookings *)

\* on_cancel_booking_clicked on the booking screen, with a row selected in the
\* list that on_view_bookings_clicked filled.
CancelListed ==
  /\ screen = "booking_manage"
  /\ call.op = "list_user_bookings"
  /\ \E id \in IdsOf(call.rows) :
        \E garb \in CancelGarbage(bookings_file) : on_cancel_booking_clicked(id, garb)

NextCancelList == SignUp \/ Login \/ SaveProfile \/ Book \/ ViewBookings \/ CancelListed

SpecCancelList == Init /\ [][NextCancelList]_vars

----------------------------------------------------------------------------
(* C38 *)

\* A Cancel of a row of the list just shown.
CancelOfListed == call.op = "list_user_bookings" /\ call'.op = "cancel"

\* The list on the screen after that Cancel: the rows that were shown, and
\* below them the rows the handler's reload appended.
ListAfterCancel == call.rows \o call'.appended

\* Every row with the canceled id is shown as canceled.
ShownCanceled(rows, booking_id) ==
  \A i \in DOMAIN rows : rows[i].booking_id = booking_id => rows[i].status = canceled

\* C38: after a cancellation the list shown to the logged-in user holds each
\* of that user's booking records exactly once, in file order, with the
\* canceled booking shown as canceled.
C38_ListAfterCancel ==
  [][CancelOfListed =>
       /\ ShowsAll(ListAfterCancel,
                   SelectSeq(bookings_file',
                             LAMBDA l : RecordFields(l).username = current_user))
       /\ ShownCanceled(ListAfterCancel, call'.booking_id)]_vars

----------------------------------------------------------------------------
(* The arrays the handlers read the files into *)

MAX_ROOMS == 100

MAX_BOOKINGS == 100

\* The elements a read loop stores into: bookings[count] (rooms[room_count])
\* for each line fgets returns, count going up from 0 with no test against
\* the number of entries of the array.
ElementsStored(file) == {i - 1 : i \in DOMAIN file}

\* The stores that land past the last entry of an array of capacity entries.
PastTheEnd(file, capacity) == {k \in ElementsStored(file) : k >= capacity}

\* A store past the end of a local array is undefined: the process is killed
\* (a guard value or the return address is overwritten) or goes on with
\* whatever lay behind the array overwritten.
LoopOutcomes(file, capacity) ==
  IF PastTheEnd(file, capacity) = {} THEN {"in_bounds"} ELSE {"killed", "went_on"}

\* The read loop of a handler was run on file.  A process that was killed is
\* started again: the main menu, nobody logged in.
ArrayLoaded(array, file, capacity, outcome) ==
  /\ call' = [op |-> "load", array |-> array, stored |-> ElementsStored(file),
              capacity |-> capacity, outcome |-> outcome]
  /\ current_user' = IF outcome = "killed" THEN Empty ELSE current_user
  /\ screen' = IF outcome = "killed" THEN "main_menu" ELSE screen
  /\ UNCHANGED <<rooms_file, bookings_file, users_file, profiles_file, admin_file,
                 is_admin_logged_in, clock, status_label, in_flight>>

\* on_cancel_booking_clicked up to the fclose after its loop over the bookings
\* file, which comes before the handler's first write.
on_cancel_booking_clicked_reads ==
  /\ current_user # Empty
  /\ \E outcome \in LoopOutcomes(bookings_file, MAX_BOOKINGS) :
        ArrayLoaded("bookings", bookings_file, MAX_BOOKINGS, outcome)

\* The loop of on_book_room_clicked over the rooms file.
on_book_room_clicked_reads ==
  /\ current_user # Empty
  /\ \E outcome \in LoopOutcomes(rooms_file, MAX_ROOMS) :
        ArrayLoaded("rooms", rooms_file, MAX_ROOMS, outcome)

\* The record of a Book of room 101 made at Epoch0.
StoredBooking ==
  BookingLine([username |-> amy, room_number |-> 101,
               booking_date |-> StrfDateTime(localtime(Epoch0)),
               check_in_date |-> Jun10, check_out_date |-> YmdText(2025, 6, 12),
               total_price |-> 20000, status |-> active,
               booking_id |-> GenerateBookingId(Epoch0)])

\* A bookings file of n records, as n confirmed Books leave it.
BookingsOf(n) == [i \in 1..n |-> StoredBooking]

\* A rooms file of n rooms: the five rooms initialize_files writes, room 101
\* booked, and the rooms added to rooms.txt by hand after them (the program
\* has no operation that adds a room).
RoomsOf(n) ==
  [i \in 1..n |->
     RoomLine(IF i = 1 THEN [SeedRooms[1] EXCEPT !.status = Booked]
              ELSE IF i <= Len(SeedRooms) THEN SeedRooms[i]
              ELSE [SeedRooms[2] EXCEPT !.room_number = 100 + i])]

\* The numbers of stored records explored: up to one more than the arrays hold.
BookingCounts == 1..(MAX_BOOKINGS + 1)

RoomCounts == {Len(SeedRooms), MAX_ROOMS, MAX_ROOMS + 1}

\* The program started on such files, and amy logged in.
InitArrays ==
  /\ bookings_file \in {BookingsOf(n) : n \in BookingCounts}
  /\ rooms_file \in {RoomsOf(n) : n \in RoomCounts}
  /\ users_file = <<UserLine(amy, CHOOSE p \in PhoneInputs : TRUE)>>
  /\ profiles_file = <<ProfileLine(amy, CHOOSE p \in ProfileInputs : TRUE)>>
  /\ admin_file = initialize_files.admin
  /\ current_user = amy
  /\ is_admin_logged_in = FALSE
  /\ clock = Epoch0
  /\ status_label = [msg |-> "welcome"]
  /\ call = [op |-> "none"]
  /\ in_flight = NoneUnderWay
  /\ screen = "customer_menu"

CancelReads == on_cancel_booking_clicked_reads

BookReads == on_book_room_clicked_reads

NextArrays == CancelReads \/ BookReads

SpecArrays == InitArrays /\ [][NextArrays]_vars

----------------------------------------------------------------------------
(* C40 *)

\* C40: Cancel and Book load the booking and room records into arrays of
\* MAX_BOOKINGS and MAX_ROOMS entries without ever storing past the last
\* entry, however many records the files hold.
C40_LoadsStayInBounds ==
  call.op = "load" => \A k \in call.stored : k < call.capacity
====
